---- MODULE Spec2Model ----
(***************************************************************************)
(* A model of the raft network layer: the VarInt codec, the length-prefixed *)
(* packet framing codec (MinecraftCodec), the per-state packet registries   *)
(* generated by derive_protocol!, and the connection driver                 *)
(* (run_peer_listener).  Bytes are integers 0..255, buffers are sequences   *)
(* of bytes, a cursor is a 0-based offset into the buffer it reads.         *)
(***************************************************************************)
EXTENDS Integers, Sequences, FiniteSets, TLC

\* ------------------------------------------------------------------ bounds

\* Most bytes the receive buffer holds when raw bytes are read from a socket.
MaxBuf == 5

\* How many frames a peer sends on one connection.
MaxFrames == 3

\* How many bytes a buffer takes from an encoder that does not stop.
MaxWritten == 12

\* How many strings are interned into one Interner.
MaxInterns == 3

\* The byte values a raw socket read appends.
ByteVals == {0, 1, 2, 128, 129}

\* ------------------------------------------------------------- bit helpers
\* A 32-bit word, u32 or i32, is the integer in -2^31 .. 2^31 - 1 that has its
\* bits in two's complement: a u32 of 2^31 or more is the negative integer with
\* the same bits.  The casts between u32 and i32 (i32_from_u32_2c,
\* i32_to_u32_2c: from_ne_bytes of to_ne_bytes) keep the bits, hence the word.

\* u8::MSB, the continuation bit of a VarInt byte.
MSB == 128

\* The word whose only set bit is bit 31.
Bit31 == -2147483647 - 1

\* The low 31 bits of a word.
Low31(a) == IF a < 0 THEN a - Bit31 ELSE a

\* x << n on a u32, for 0 <= x < 2^31 and 0 <= n < 32: the bits shifted past
\* bit 31 are lost.
Shl32(x, n) ==
    IF n = 0 THEN x
    ELSE LET low == x % (2 ^ (31 - n))
             top == (x \div (2 ^ (31 - n))) % 2
         IN  low * (2 ^ n) + (IF top = 1 THEN Bit31 ELSE 0)

Mut_Shr7(a) == Low31(a) \div 128

\* x >> 7 on a u32.
Shr7(a) == IF a < 0 THEN Low31(a) \div 128 + 2 ^ 24 ELSE a \div 128

RECURSIVE Or31(_, _)
\* a | b on integers 0 .. 2^31 - 1.
Or31(a, b) ==
    IF a = 0 THEN b
    ELSE IF b = 0 THEN a
    ELSE (IF a % 2 = 1 \/ b % 2 = 1 THEN 1 ELSE 0) + 2 * Or31(a \div 2, b \div 2)

\* a | b on words.
BitOr(a, b) == Or31(Low31(a), Low31(b)) + (IF a < 0 \/ b < 0 THEN Bit31 ELSE 0)

\* a > b and a < b on u32 values.
UGt(a, b) == IF (a < 0) = (b < 0) THEN a > b ELSE a < 0
ULt(a, b) == UGt(b, a)

\* u32::MAX.
U32_MAX == -1

\* The hard maximum packet length, written `2 << 21 - 1` in the source: binary
\* minus binds tighter than the shift.
Mut_HARD_MAX_PACKET_LEN_INCL == Shl32(2, 21) - 1

HARD_MAX_PACKET_LEN_INCL == Shl32(2, 21 - 1)

\* ------------------------------------------------------------------ VarInt

RECURSIVE DecodeVarLoop(_, _, _, _)
\* The loop of VarInt::decode_streaming from offset pos of bs: st is "ok" (val is
\* the u32 accumulator), "none" (the input ended first) or "err" (a fifth byte
\* with its continuation bit set); pos is the cursor's offset afterwards.
DecodeVarLoop(bs, pos, accum, shift) ==
    IF pos >= Len(bs)
    THEN [st |-> "none", val |-> 0, pos |-> pos]
    ELSE LET byte == bs[pos + 1]
             acc2 == BitOr(accum, Shl32(byte % MSB, shift))
         IN  IF byte < MSB
             THEN [st |-> "ok", val |-> acc2, pos |-> pos + 1]
             ELSE IF shift + 7 >= 32
             THEN [st |-> "err", val |-> 0, pos |-> pos + 1]
             ELSE DecodeVarLoop(bs, pos + 1, acc2, shift + 7)

Mut_DecodeVarInt(bs, pos) ==
    [DecodeVarLoop(bs, pos, 0, 0) EXCEPT
        !.st = IF DecodeVarLoop(bs, pos, 0, 0).st = "none" THEN "err" ELSE @]

\* VarInt::decode_streaming on a cursor at offset pos of bs; val is the
\* accumulator as a u32 (the framing codec compares it with a u32).
DecodeVarInt(bs, pos) == DecodeVarLoop(bs, pos, 0, 0)

Mut_EncodeVarLoop(accum) == <<accum % MSB>>

RECURSIVE EncodeVarLoop(_)
\* The loop of VarInt::encode_streaming on the u32 accumulator.
EncodeVarLoop(accum) ==
    LET byte == accum % MSB
        rest == Shr7(accum)
    IN  IF rest # 0
        THEN <<byte + MSB>> \o EncodeVarLoop(rest)
        ELSE <<byte>>

\* The bytes VarInt(v) writes, v given as its u32 bit pattern.
EncodeVarInt(v) == EncodeVarLoop(v)

\* VarInt(v).length(): the number of bytes the encoding takes.
VarIntLength(v) == Len(EncodeVarInt(v))

\* ------------------------------------------------------ ByteMutReadSession

\* ByteMutReadSession::new: the pending operation starts as Reserve(0).
SessionNew == [op |-> "Reserve", n |-> 0]

Mut_SessionReserve(post, additional) == [op |-> "Reserve", n |-> additional]

\* ByteMutReadSession::reserve: ignored once a consumption is committed.
SessionReserve(post, additional) ==
    IF post.op = "Reserve"
    THEN [op |-> "Reserve", n |-> IF post.n > additional THEN post.n ELSE additional]
    ELSE post

Mut_SessionConsume(post, count) ==
    [op |-> "Consume", n |-> (IF post.op = "Reserve" THEN 0 ELSE post.n) + count - 1]

\* ByteMutReadSession::consume (consume_cursor passes the cursor's position).
SessionConsume(post, count) ==
    [op |-> "Consume", n |-> (IF post.op = "Reserve" THEN 0 ELSE post.n) + count]

Mut_SessionDrop(bytes, post) ==
    [bytes |-> SubSeq(bytes, post.n + 1, Len(bytes)), reserved |-> 0]

\* Drop for ByteMutReadSession: the buffer after the pending operation, and the
\* capacity reservation requested of it.
SessionDrop(bytes, post) ==
    IF post.op = "Reserve"
    THEN [bytes |-> bytes, reserved |-> post.n]
    ELSE [bytes |-> SubSeq(bytes, post.n + 1, Len(bytes)), reserved |-> 0]

\* ----------------------------------------------------------- MinecraftCodec

Ret(kind, err, id, body, post) ==
    [kind |-> kind, err |-> err, id |-> id, body |-> body, post |-> post]

\* The maximum check of decode: the declared length exceeds max_recv_len.
Mut_TooBig(length, max) == ~UGt(max, length)

TooBig(length, max) == UGt(length, max)

\* The body length decode computes: the declared length less the bytes of the
\* packet id (called once checked_sub has succeeded).
Mut_BodyLen(length, id_len) == length

BodyLen(length, id_len) == length - id_len

Mut_NegativeBody(length, id_len) == FALSE

\* length.0.checked_sub((body_pos - id_pos) as u32) is None: the packet id took
\* more bytes than the frame declares.
NegativeBody(length, id_len) == length < id_len

\* The packet length encode declares: the bytes of the id and of the body.
Mut_PacketLen(id_len, body_len) == body_len

PacketLen(id_len, body_len) == id_len + body_len

\* Decoder::decode for MinecraftCodec (is_compressed is always false): the value
\* returned (Ok(None), Err or Ok(Some(RawPacket))) and the session's pending
\* operation when it is dropped.
Decode(stream, max) ==
    LET s0 == SessionNew
        length == DecodeVarInt(stream, 0)
    IN  IF length.st = "none" THEN Ret("none", "", 0, <<>>, s0)
        ELSE IF length.st = "err" THEN Ret("err", "varint_too_long", 0, <<>>, s0)
        ELSE IF TooBig(length.val, max) THEN Ret("err", "too_big", 0, <<>>, s0)
        ELSE
        LET s1 == SessionReserve(s0, length.val)
            id_pos == length.pos
            id == DecodeVarInt(stream, id_pos)
        IN  IF id.st = "none" THEN Ret("none", "", 0, <<>>, s1)
            ELSE IF id.st = "err" THEN Ret("err", "varint_too_long", 0, <<>>, s1)
            ELSE
            LET body_pos == id.pos
            IN  IF NegativeBody(length.val, body_pos - id_pos)
                THEN Ret("err", "negative_body", 0, <<>>, s1)
                ELSE
                LET body_len == BodyLen(length.val, body_pos - id_pos)
                IN  IF body_pos + body_len > Len(stream)
                    THEN Ret("none", "", 0, <<>>, s1)
                    ELSE Ret("packet", "", id.val,
                             SubSeq(stream, body_pos + 1, body_pos + body_len),
                             SessionConsume(s1, body_pos + body_len))

Mut_Encode(id, body, dst) ==
    IF VarIntLength(id) + Len(body) >= HARD_MAX_PACKET_LEN_INCL
    THEN [ok |-> FALSE, dst |-> dst]
    ELSE [ok |-> TRUE,
          dst |-> dst \o EncodeVarInt(VarIntLength(id) + Len(body)) \o EncodeVarInt(id) \o body]

\* Encoder::encode for MinecraftCodec: whether it succeeds and the destination
\* buffer afterwards.
Encode(id, body, dst) ==
    LET id_len == VarIntLength(id)
        packet_len == PacketLen(id_len, Len(body))
    IN  IF packet_len > HARD_MAX_PACKET_LEN_INCL
        THEN [ok |-> FALSE, dst |-> dst]
        ELSE [ok |-> TRUE,
              dst |-> dst \o EncodeVarInt(packet_len) \o EncodeVarInt(id) \o body]

\* RawPeerStream::new and set_max_recv_len cap the limit at the hard maximum.
Mut_CapRecvLen(len) == len

CapRecvLen(len) ==
    IF ULt(len, HARD_MAX_PACKET_LEN_INCL) THEN len ELSE HARD_MAX_PACKET_LEN_INCL

\* ------------------------------------------------------------ field codecs
\* A decoded field value is a sequence of integers: <<v>> for a number, the
\* bytes of a string or byte array, the 32-bit words of an i64 or u128 (most
\* significant first), <<0>> for None and <<1>> \o x for Some(x).

FOk(val, pos) == [ok |-> TRUE, val |-> val, pos |-> pos, err |-> ""]
FErr(err, pos) == [ok |-> FALSE, val |-> <<>>, pos |-> pos, err |-> err]

\* ByteCursor::read_slice: the cursor moves only when count bytes remain (a
\* negative count is a usize no buffer holds).
CanRead(bs, pos, count) == count >= 0 /\ pos + count <= Len(bs)

\* u32::from_be_bytes, as a word.
WordBE(b) ==
    (b[1] % 128) * (2 ^ 24) + b[2] * (2 ^ 16) + b[3] * (2 ^ 8) + b[4]
        + (IF b[1] >= 128 THEN Bit31 ELSE 0)

\* u32::to_be_bytes of a word.
WordBytes(w) ==
    LET low == Low31(w)
    IN  <<low \div (2 ^ 24) + (IF w < 0 THEN 128 ELSE 0),
          (low \div (2 ^ 16)) % 256, (low \div (2 ^ 8)) % 256, low % 256>>

Mut_VarInt_result(r) ==
    IF r.st = "err" THEN FErr("varint_too_long", r.pos) ELSE FOk(<<r.val>>, r.pos)

\* Codec<()> for a StreamingCodec, here VarInt: Ok(None) becomes an error.
VarInt_result(r) ==
    IF r.st = "ok" THEN FOk(<<r.val>>, r.pos)
    ELSE IF r.st = "none" THEN FErr("incomplete", r.pos)
    ELSE FErr("varint_too_long", r.pos)

VarInt_decode(bs, pos) == VarInt_result(DecodeVarInt(bs, pos))

\* VarUint::decode_streaming: a negative VarInt is an error.
VarUint_result(r) == IF r.ok /\ r.val[1] < 0 THEN FErr("negative", r.pos) ELSE r

VarUint_decode(bs, pos) == VarUint_result(VarInt_decode(bs, pos))

\* impl_prim!: fixed-size big-endian integers.
u8_decode(bs, pos) ==
    IF CanRead(bs, pos, 1) THEN FOk(<<bs[pos + 1]>>, pos + 1)
    ELSE FErr("incomplete", pos)

u16_decode(bs, pos) ==
    IF CanRead(bs, pos, 2) THEN FOk(<<bs[pos + 1] * 256 + bs[pos + 2]>>, pos + 2)
    ELSE FErr("incomplete", pos)

i64_decode(bs, pos) ==
    IF CanRead(bs, pos, 8)
    THEN FOk(<<WordBE(SubSeq(bs, pos + 1, pos + 4)),
               WordBE(SubSeq(bs, pos + 5, pos + 8))>>, pos + 8)
    ELSE FErr("incomplete", pos)

u128_decode(bs, pos) ==
    IF CanRead(bs, pos, 16)
    THEN FOk(<<WordBE(SubSeq(bs, pos + 1, pos + 4)),
               WordBE(SubSeq(bs, pos + 5, pos + 8)),
               WordBE(SubSeq(bs, pos + 9, pos + 12)),
               WordBE(SubSeq(bs, pos + 13, pos + 16))>>, pos + 16)
    ELSE FErr("incomplete", pos)

Mut_u16_encode(v) == <<v % 256, v \div 256>>

u16_encode(v) == <<v \div 256, v % 256>>
i64_encode(v) == WordBytes(v[1]) \o WordBytes(v[2])
u128_encode(v) == WordBytes(v[1]) \o WordBytes(v[2]) \o WordBytes(v[3]) \o WordBytes(v[4])

\* StreamingCodec for bool.
bool_result(r) ==
    IF ~r.ok THEN r
    ELSE IF r.val[1] \in {0, 1} THEN r
    ELSE FErr("invalid_bool", r.pos)

bool_decode(bs, pos) == bool_result(u8_decode(bs, pos))

\* The bytes one UTF-8 sequence starting with byte b takes (0: b starts none),
\* and the values its second byte may have.
Utf8Width(b) ==
    IF b < 128 THEN 1
    ELSE IF b >= 194 /\ b <= 223 THEN 2
    ELSE IF b >= 224 /\ b <= 239 THEN 3
    ELSE IF b >= 240 /\ b <= 244 THEN 4
    ELSE 0

Utf8Second(b) ==
    IF b = 224 THEN 160 .. 191
    ELSE IF b = 237 THEN 128 .. 159
    ELSE IF b = 240 THEN 144 .. 191
    ELSE IF b = 244 THEN 128 .. 143
    ELSE 128 .. 191

\* Whether the w bytes of bs from index i are one well-formed UTF-8 sequence.
Utf8SeqOk(bs, i, w) ==
    /\ w > 0
    /\ i + w - 1 <= Len(bs)
    /\ w >= 2 => bs[i + 1] \in Utf8Second(bs[i])
    /\ \A k \in 2 .. (w - 1) : bs[i + k] \in 128 .. 191

Utf8Add(rest) == IF rest < 0 THEN -1 ELSE 1 + rest

RECURSIVE Utf8Count(_, _)
\* std::str::from_utf8 followed by chars().count() on bs from index i: the
\* number of codepoints, or -1 when the bytes are not well-formed UTF-8.
Utf8Count(bs, i) ==
    IF i > Len(bs) THEN 0
    ELSE IF ~Utf8SeqOk(bs, i, Utf8Width(bs[i])) THEN -1
    ELSE Utf8Add(Utf8Count(bs, i + Utf8Width(bs[i])))

\* Option<u32>::None as the maximum length of a NetString.
NoMax == -1

\* Codec<Option<u32>> for NetString: decode, once the payload is read.
NetString_checked(max_len, data, end, actual_len) ==
    IF actual_len < 0 THEN FErr("invalid_utf8", end)
    ELSE IF max_len # NoMax /\ actual_len > max_len THEN FErr("string_too_long", end)
    ELSE FOk(data, end)

\* Codec<Option<u32>> for NetString: decode, once the size is read.
NetString_sized(max_len, bs, size) ==
    IF ~size.ok THEN size
    ELSE IF max_len # NoMax /\ size.val[1] > max_len * 4
    THEN FErr("string_bytes_too_long", size.pos)
    ELSE IF ~CanRead(bs, size.pos, size.val[1])
    THEN FErr("string_truncated", size.pos)
    ELSE NetString_checked(max_len,
                           SubSeq(bs, size.pos + 1, size.pos + size.val[1]),
                           size.pos + size.val[1],
                           Utf8Count(SubSeq(bs, size.pos + 1, size.pos + size.val[1]), 1))

\* Codec<Option<u32>> for NetString: decode.
NetString_decode(max_len, bs, pos) == NetString_sized(max_len, bs, VarUint_decode(bs, pos))

\* Codec<Option<u32>> for NetString: encode.
NetString_encode(str) == EncodeVarInt(Len(str)) \o str

\* Codec<()> for Bytes: the rest of the frame.
Bytes_decode(bs, pos) == FOk(SubSeq(bs, pos + 1, Len(bs)), Len(bs))

\* Codec<()> for ByteArray.
ByteArray_sized(bs, len) ==
    IF ~len.ok THEN len
    ELSE IF ~CanRead(bs, len.pos, len.val[1])
    THEN FErr("byte_array_truncated", len.pos)
    ELSE FOk(SubSeq(bs, len.pos + 1, len.pos + len.val[1]), len.pos + len.val[1])

ByteArray_decode(bs, pos) == ByteArray_sized(bs, VarInt_decode(bs, pos))

ByteArray_encode(data) == EncodeVarInt(Len(data)) \o data

\* Codec<A> for Option<T>: Some(inner) once T is decoded.
Option_some(inner) == IF inner.ok THEN FOk(<<1>> \o inner.val, inner.pos) ELSE inner

\* Codec<()> for Uuid and Codec<A> for Option<T>, T being Uuid or Bytes.
OptionUuid_flagged(bs, flag) ==
    IF ~flag.ok THEN flag
    ELSE IF flag.val[1] = 1 THEN Option_some(u128_decode(bs, flag.pos))
    ELSE FOk(<<0>>, flag.pos)

OptionBytes_flagged(bs, flag) ==
    IF ~flag.ok THEN flag
    ELSE IF flag.val[1] = 1 THEN Option_some(Bytes_decode(bs, flag.pos))
    ELSE FOk(<<0>>, flag.pos)

OptionUuid_decode(bs, pos) == OptionUuid_flagged(bs, bool_decode(bs, pos))
OptionBytes_decode(bs, pos) == OptionBytes_flagged(bs, bool_decode(bs, pos))

\* Codec::decode and Codec::encode of a field, by its declared type and config.
Field_decode(ty, bs, pos) ==
    CASE ty = "VarInt" -> VarInt_decode(bs, pos)
      [] ty = "NetString => 255" -> NetString_decode(255, bs, pos)
      [] ty = "NetString => 16" -> NetString_decode(16, bs, pos)
      [] ty = "u16" -> u16_decode(bs, pos)
      [] ty = "i64" -> i64_decode(bs, pos)
      [] ty = "ByteArray" -> ByteArray_decode(bs, pos)
      [] ty = "Option<Uuid>" -> OptionUuid_decode(bs, pos)
      [] ty = "Option<Bytes>" -> OptionBytes_decode(bs, pos)

Field_encode(ty, v) ==
    CASE ty = "VarInt" -> EncodeVarInt(v[1])
      [] ty = "NetString => 255" -> NetString_encode(v)
      [] ty = "NetString => 16" -> NetString_encode(v)
      [] ty = "u16" -> u16_encode(v[1])
      [] ty = "i64" -> i64_encode(v)
      [] ty = "ByteArray" -> ByteArray_encode(v)
      [] ty = "Option<Uuid>" -> IF v[1] = 1 THEN <<1>> \o u128_encode(Tail(v)) ELSE <<0>>
      [] ty = "Option<Bytes>" -> IF v[1] = 1 THEN <<1>> \o Tail(v) ELSE <<0>>

\* ------------------------------------------------------- packet registries

\* The server-bound modules of the derive_protocol! invocation: each a list of
\* `struct Name(id) { field: type => config, ... }` arms in declaration order.
sb_handshake ==
    <<[id |-> 0, shape |-> "Handshake",
       fields |-> <<"VarInt", "NetString => 255", "u16", "VarInt">>]>>
sb_status ==
    <<[id |-> 0, shape |-> "StatusRequest", fields |-> <<>>],
      [id |-> 1, shape |-> "PingRequest", fields |-> <<"i64">>]>>
sb_login ==
    <<[id |-> 0, shape |-> "LoginStart", fields |-> <<"NetString => 16", "Option<Uuid>">>],
      [id |-> 1, shape |-> "EncryptionResponse", fields |-> <<"ByteArray", "ByteArray">>],
      [id |-> 2, shape |-> "LoginPluginResponse", fields |-> <<"VarInt", "Option<Bytes>">>]>>

States == {"sb_handshake", "sb_status", "sb_login"}

Registry(state) ==
    CASE state = "sb_handshake" -> sb_handshake
      [] state = "sb_status" -> sb_status
      [] state = "sb_login" -> sb_login

\* `match id { $($id => ...)* _ => bail }`: the index of the first arm whose id
\* matches, 0 when none does.
FirstOf(hits) == IF hits = {} THEN 0 ELSE CHOOSE i \in hits : \A j \in hits : i <= j

Mut_ArmOf(state, id) == IF id = Registry(state)[1].id THEN 1 ELSE 0

ArmOf(state, id) ==
    FirstOf({i \in 1 .. Len(Registry(state)) : Registry(state)[i].id = id})

\* The arm Packet::encode takes for a shape.
ArmOfShape(state, shape) ==
    FirstOf({i \in 1 .. Len(Registry(state)) : Registry(state)[i].shape = shape})

SOk(fields, pos) == [ok |-> TRUE, fields |-> fields, pos |-> pos, err |-> ""]
SErr(f) == [ok |-> FALSE, fields |-> <<>>, pos |-> f.pos, err |-> f.err]

RECURSIVE Struct_decode(_, _, _, _, _)
\* codec_struct! decode: the fields in declaration order, the cursor threaded
\* through; the first failing field fails the struct.
Struct_field(tys, i, bs, acc, f) ==
    IF ~f.ok THEN SErr(f)
    ELSE Struct_decode(tys, i + 1, bs, f.pos, Append(acc, f.val))

Struct_decode(tys, i, bs, pos, acc) ==
    IF i > Len(tys) THEN SOk(acc, pos)
    ELSE Struct_field(tys, i, bs, acc, Field_decode(tys[i], bs, pos))

RECURSIVE Struct_encode(_, _, _)
\* codec_struct! encode: the fields in declaration order, from field i on.
Struct_encode(tys, i, fields) ==
    IF i > Len(tys) THEN <<>>
    ELSE Field_encode(tys[i], fields[i]) \o Struct_encode(tys, i + 1, fields)

\* What Packet::decode returns: the packet (its shape and fields) or an error;
\* an unknown-packet error names the id and the state type.
POk(shape, fields, pos) ==
    [ok |-> TRUE, shape |-> shape, fields |-> fields, pos |-> pos,
     err |-> "", id |-> 0, state |-> ""]
PErr(err, shape, id, state, pos) ==
    [ok |-> FALSE, shape |-> shape, fields |-> <<>>, pos |-> pos,
     err |-> err, id |-> id, state |-> state]

\* Packet::decode: the arm's struct is decoded and wrapped into the enum.
Packet_arm(shape, p) ==
    IF p.ok THEN POk(shape, p.fields, p.pos) ELSE PErr(p.err, shape, 0, "", p.pos)

Mut_Packet_match(state, bs, id, arm) ==
    Packet_arm(Registry(state)[IF arm = 0 THEN 1 ELSE arm].shape,
               Struct_decode(Registry(state)[IF arm = 0 THEN 1 ELSE arm].fields,
                             1, bs, id.pos, <<>>))

\* Packet::decode: the match on the decoded id.
Packet_match(state, bs, id, arm) ==
    IF arm = 0 THEN PErr("unknown_packet", "", id.val[1], state, id.pos)
    ELSE Packet_arm(Registry(state)[arm].shape,
                    Struct_decode(Registry(state)[arm].fields, 1, bs, id.pos, <<>>))

Packet_id(state, bs, id) ==
    IF ~id.ok THEN PErr(id.err, "", 0, "", id.pos)
    ELSE Packet_match(state, bs, id, ArmOf(state, id.val[1]))

\* Packet::decode of the module `state`, on a cursor at the start of bs.
Packet_decode(state, bs) == Packet_id(state, bs, VarInt_decode(bs, 0))

\* The id Packet::encode writes for a shape of the module `state`.
IdOfShape(state, shape) == Registry(state)[ArmOfShape(state, shape)].id

\* Packet::encode of the module `state`.
Packet_encode(state, shape, fields) ==
    EncodeVarInt(IdOfShape(state, shape))
        \o Struct_encode(Registry(state)[ArmOfShape(state, shape)].fields, 1, fields)

\* ------------------------------------------------------ connection driver

\* include_str!("tmp/status.json"), the configured status response: `{}`.
STATUS_JSON == <<123, 125>>

\* What `?` makes of a failed decode in run_peer_listener: the function returns.
Mut_AfterError == "running"

AfterError == "failed"

\* The match on packet.next_state.0 of a Handshake packet ("": bail).
Mut_NextState(next_state) ==
    CASE next_state = 1 -> "Status"
      [] next_state = 2 -> "Login"
      [] OTHER -> "Play"

NextState(next_state) ==
    CASE next_state = 1 -> "Status"
      [] next_state = 2 -> "Login"
      [] OTHER -> ""

\* A packet written to the peer.
Written(module, shape, fields) == [module |-> module, shape |-> shape, fields |-> fields]

\* The responses to a decoded Status packet.
Mut_StatusReply(packet) ==
    IF packet.shape = "StatusRequest"
    THEN <<Written("cb_status", "StatusResponse", <<STATUS_JSON>>)>>
    ELSE <<Written("cb_status", "PingResponse", <<<<0, 0>>>>)>>

StatusReply(packet) ==
    IF packet.shape = "StatusRequest"
    THEN <<Written("cb_status", "StatusResponse", <<STATUS_JSON>>)>>
    ELSE <<Written("cb_status", "PingResponse", <<packet.fields[1]>>)>>

\* The registry a PeerState decodes with.
ModuleOf(st) ==
    CASE st = "Handshake" -> "sb_handshake"
      [] st = "Status" -> "sb_status"
      [] st = "Login" -> "sb_login"

Outcome(st, p, out, packet) == [state |-> st, pc |-> p, out |-> out, packet |-> packet]

\* The arm of `match state` for a decoded Handshake packet.
Handle_next(st, packet, next) ==
    IF next = "" THEN Outcome(st, AfterError, <<>>, packet)
    ELSE Outcome(next, "running", <<>>, packet)

Mut_Handle_decoded(st, packet) ==
    IF ~packet.ok THEN Outcome(st, AfterError, <<>>, packet)
    ELSE IF st = "Handshake" THEN Handle_next(st, packet, NextState(packet.fields[4][1]))
    ELSE IF st = "Status" THEN Outcome(st, "running", StatusReply(packet), packet)
    ELSE IF packet.shape = "LoginStart"
    THEN Outcome("Play", "running", <<Written("cb_login", "Disconnect", <<>>)>>, packet)
    ELSE Outcome(st, "panicked", <<>>, packet)

\* `match state` once Packet::decode_bytes has returned.
Handle_decoded(st, packet) ==
    IF ~packet.ok THEN Outcome(st, AfterError, <<>>, packet)
    ELSE IF st = "Handshake" THEN Handle_next(st, packet, NextState(packet.fields[4][1]))
    ELSE IF st = "Status" THEN Outcome(st, "running", StatusReply(packet), packet)
    ELSE IF packet.shape = "LoginStart"
    THEN Outcome(st, "running", <<Written("cb_login", "Disconnect", <<>>)>>, packet)
    ELSE Outcome(st, "panicked", <<>>, packet)

\* One iteration of the loop of run_peer_listener on a received frame: the
\* PeerState afterwards, whether the function goes on ("running"), returns Err
\* ("failed") or hits todo!() ("panicked"), and the packets written.
Handle(st, frame) ==
    IF st = "Play" THEN Outcome(st, "panicked", <<>>, PErr("", "", 0, "", 0))
    ELSE Handle_decoded(st, Packet_decode(ModuleOf(st), frame))

\* ---------------------------------------------------------------- Interner
\* A string is the sequence of its characters. An Interner is its buffer, the
\* entries of its intern_strings map and its intern_entries; an Intern is its id.

\* hash_one: the texts of the model have distinct hashes.
hash_one(text) == text

\* Interner::default().
Interner_default == [buffer |-> <<>>, intern_strings |-> {}, intern_entries |-> <<>>]

\* &buffer[offset..][..len]: whether it is in range (it panics otherwise), and
\* the slice.
SliceOk(buffer, offset, len) == offset <= Len(buffer) /\ len <= Len(buffer) - offset
Slice(buffer, offset, len) == SubSeq(buffer, offset + 1, offset + len)

\* raw_entry().from_hash(hash, |intern| hash == intern.hash && text ==
\* &buffer[intern.offset..][..intern.len]): the slice is taken of the entries
\* with the text's hash only.
from_hash(intern_strings, buffer, text) ==
    IF \E e \in intern_strings :
          e.hash = hash_one(text) /\ ~SliceOk(buffer, e.offset, e.len)
    THEN [st |-> "panic", id |-> 0]
    ELSE IF \E e \in intern_strings :
          e.hash = hash_one(text) /\ Slice(buffer, e.offset, e.len) = text
    THEN [st |-> "some",
          id |-> (CHOOSE e \in intern_strings :
                    e.hash = hash_one(text) /\ Slice(buffer, e.offset, e.len) = text).intern]
    ELSE [st |-> "none", id |-> 0]

\* Drop for InternBuilder: interner.buffer.truncate(start). It runs whenever a
\* builder goes out of scope, at the end of finish(self) too.
InternBuilder_drop(it, start) == [it EXCEPT !.buffer = SubSeq(@, 1, start)]

\* InternBuilder::finish, once the entry of the text was looked up: Occupied
\* truncates the buffer and returns the entry's intern; Vacant pushes
\* (offset, len) and inserts the entry. Then the builder is dropped.
InternBuilder_finished(it, start, text, found) ==
    IF found.st = "panic" THEN [st |-> "panic", id |-> 0, interner |-> it]
    ELSE IF found.st = "some"
    THEN [st |-> "ok", id |-> found.id,
          interner |-> InternBuilder_drop([it EXCEPT !.buffer = SubSeq(@, 1, start)], start)]
    ELSE [st |-> "ok", id |-> Len(it.intern_entries),
          interner |-> InternBuilder_drop(
              [it EXCEPT
                 !.intern_entries = Append(@, <<start, Len(it.buffer) - start>>),
                 !.intern_strings = @ \cup {[hash |-> hash_one(text),
                                             intern |-> Len(it.intern_entries),
                                             offset |-> start,
                                             len |-> Len(it.buffer) - start]}],
              start)]

\* InternBuilder::finish of a builder begun at start: the text is the buffer
\* from start on.
InternBuilder_finish(it, start) ==
    InternBuilder_finished(it, start, Slice(it.buffer, start, Len(it.buffer) - start),
        from_hash(it.intern_strings, it.buffer,
                  Slice(it.buffer, start, Len(it.buffer) - start)))

\* Interner::intern and intern_iter: begin_intern, with_str or with_iter, finish.
Interner_intern(it, str) ==
    InternBuilder_finish([it EXCEPT !.buffer = @ \o str], Len(it.buffer))

\* Interner::decode.
Interner_decode(it, id) ==
    IF id + 1 > Len(it.intern_entries) THEN [st |-> "panic", text |-> <<>>]
    ELSE IF ~SliceOk(it.buffer, it.intern_entries[id + 1][1], it.intern_entries[id + 1][2])
    THEN [st |-> "panic", text |-> <<>>]
    ELSE [st |-> "ok",
          text |-> Slice(it.buffer, it.intern_entries[id + 1][1],
                         it.intern_entries[id + 1][2])]

\* Interner::find_intern.
Interner_find_intern(it, text) == from_hash(it.intern_strings, it.buffer, text)

\* ------------------------------------------------------------------- state

VARIABLES
    buf,            \* the receive buffer of the Framed stream (BytesMut)
    max_recv_len,   \* MinecraftCodec::max_recv_len
    res,            \* what the decode call just made returned ("idle": none made)
    prev,           \* the receive buffer as that decode call found it
    dec_in,         \* the state module and bytes of a Packet::decode call
    dec_out,        \* what that call returned
    call,           \* a call of one function on its own: the function and arguments
    ret,            \* what that call returned
    interner,       \* an Interner
    interned,       \* the strings interned into it and the Interns returned
    state,          \* run_peer_listener: the PeerState
    pc,             \* run_peer_listener: "running", "failed" (returned Err)
                    \* or "panicked" (todo!())
    written,        \* the packets written to the peer, in order
    last,           \* what Packet::decode made of the frame last received
    wire,           \* bytes the peer has sent that the socket has not yet read
    pending,        \* the frames the peer has sent that decode has not yet returned
    nsent           \* how many frames the peer has sent

codecVars == <<buf, max_recv_len, res, prev>>
protoVars == <<dec_in, dec_out>>
callVars == <<call, ret, interner, interned>>
connVars == <<state, pc, written, last, wire, pending, nsent>>
vars == <<buf, max_recv_len, res, prev, dec_in, dec_out, call, ret, interner, interned,
          state, pc, written, last, wire, pending, nsent>>

\* The limits a caller asks for.
RecvLenChoices == {1, 3, HARD_MAX_PACKET_LEN_INCL, U32_MAX}

\* The packets handed to the encoder.
RawIds == {0, 1, 128, U32_MAX}
RawBodies == {<<>>, <<0>>, <<1, 2>>, <<128, 0, 7>>}

Idle == [kind |-> "idle", err |-> "", id |-> 0, body |-> <<>>, reserved |-> 0]

NoPacket == PErr("", "", 0, "", 0)

ProtoIdle ==
    /\ dec_in = [state |-> "", bytes |-> <<>>, of |-> "", shape |-> "", id |-> 0]
    /\ dec_out = NoPacket

NoCall == [fn |-> "", args |-> <<>>]

CallIdle ==
    /\ call = NoCall
    /\ ret = [ok |-> TRUE]
    /\ interner = Interner_default
    /\ interned = <<>>

\* Everything but the called function at rest.
OthersIdle ==
    /\ buf = <<>>
    /\ max_recv_len = HARD_MAX_PACKET_LEN_INCL
    /\ res = Idle
    /\ prev = <<>>
    /\ dec_in = [state |-> "", bytes |-> <<>>, of |-> "", shape |-> "", id |-> 0]
    /\ dec_out = PErr("", "", 0, "", 0)
    /\ state = "Handshake"
    /\ pc = "running"
    /\ written = <<>>
    /\ last = PErr("", "", 0, "", 0)
    /\ wire = <<>>
    /\ pending = <<>>
    /\ nsent = 0

OthersUnchanged ==
    UNCHANGED <<buf, max_recv_len, res, prev, dec_in, dec_out, interner, interned,
                state, pc, written, last, wire, pending, nsent>>

ConnIdle ==
    /\ state = "Handshake"
    /\ pc = "running"
    /\ written = <<>>
    /\ last = NoPacket
    /\ wire = <<>>
    /\ pending = <<>>
    /\ nsent = 0

Init ==
    /\ buf = <<>>
    /\ \E len \in RecvLenChoices : max_recv_len = CapRecvLen(len)
    /\ res = Idle
    /\ prev = <<>>
    /\ ProtoIdle
    /\ CallIdle
    /\ ConnIdle

\* The socket delivers one more byte into the receive buffer.
SocketRead(b) ==
    /\ res.kind # "err"
    /\ Len(buf) < MaxBuf
    /\ buf' = Append(buf, b)
    /\ res' = Idle
    /\ prev' = <<>>
    /\ UNCHANGED <<max_recv_len, protoVars, callVars, connVars>>

\* Framed calls Decoder::decode on the receive buffer; the session is dropped
\* when the call returns.
DecodeCall ==
    /\ res.kind # "err"
    /\ LET r == Decode(buf, max_recv_len)
           d == SessionDrop(buf, r.post)
       IN  /\ buf' = d.bytes
           /\ res' = [kind |-> r.kind, err |-> r.err, id |-> r.id,
                      body |-> r.body, reserved |-> d.reserved]
           /\ prev' = buf
    /\ UNCHANGED <<max_recv_len, protoVars, callVars, connVars>>

\* RawPeerStream::set_max_recv_len.
SetMaxRecvLen(len) ==
    /\ res.kind # "err"
    /\ max_recv_len' = CapRecvLen(len)
    /\ res' = Idle
    /\ prev' = <<>>
    /\ UNCHANGED <<buf, protoVars, callVars, connVars>>

\* Encoder::encode writes a packet into an empty buffer, which is then handed
\* to the decoder as its input.
EncodeCall(id, body) ==
    /\ res.kind # "err"
    /\ buf = <<>>
    /\ LET e == Encode(id, body, <<>>)
       IN  /\ e.ok
           /\ buf' = e.dst
    /\ res' = Idle
    /\ prev' = <<>>
    /\ UNCHANGED <<max_recv_len, protoVars, callVars, connVars>>

Next ==
    \/ \E b \in ByteVals : SocketRead(b)
    \/ DecodeCall
    \/ \E len \in RecvLenChoices : SetMaxRecvLen(len)
    \/ \E id \in RawIds, body \in RawBodies : EncodeCall(id, body)

Spec == Init /\ [][Next]_vars

\* ------------------------------------------- Packet::decode, state by state

\* The packets of the server-bound registries that are encoded and decoded.
Ping1 == <<16909060, 84281096>>
SbPackets ==
    {[state |-> "sb_handshake", shape |-> "Handshake",
      fields |-> <<<<760>>, <<104, 105>>, <<25565>>, <<1>>>>],
     [state |-> "sb_handshake", shape |-> "Handshake",
      fields |-> <<<<760>>, <<108, 111, 99, 97, 108, 104, 111, 115, 116>>, <<25565>>, <<1>>>>],
     [state |-> "sb_handshake", shape |-> "Handshake",
      fields |-> <<<<-1>>, <<>>, <<65535>>, <<2>>>>],
     [state |-> "sb_status", shape |-> "StatusRequest", fields |-> <<>>],
     [state |-> "sb_status", shape |-> "PingRequest", fields |-> <<Ping1>>],
     [state |-> "sb_status", shape |-> "PingRequest", fields |-> <<<<-1, Bit31>>>>],
     [state |-> "sb_login", shape |-> "LoginStart",
      fields |-> <<<<195, 169, 195, 169, 195, 169, 195, 169, 195, 169, 195, 169, 195, 169,
                     195, 169, 195, 169, 195, 169, 195, 169, 195, 169, 195, 169, 195, 169,
                     195, 169, 240, 159, 152, 128>>,
                   <<1, -1, 0, Bit31, 2147483647>>>>],
     [state |-> "sb_status", shape |-> "PingRequest", fields |-> <<<<0, 0>>>>],
     [state |-> "sb_login", shape |-> "LoginStart", fields |-> <<<<97, 98>>, <<0>>>>],
     [state |-> "sb_login", shape |-> "LoginStart",
      fields |-> <<<<97>>, <<1, 1, 2, 3, -4>>>>],
     [state |-> "sb_login", shape |-> "EncryptionResponse", fields |-> <<<<7>>, <<8, 9>>>>],
     [state |-> "sb_login", shape |-> "LoginPluginResponse", fields |-> <<<<5>>, <<0>>>>],
     [state |-> "sb_login", shape |-> "LoginPluginResponse",
      fields |-> <<<<-1>>, <<1, 3, 4>>>>]}

\* The packet ids and the bytes after them that are decoded raw.
ProtoIds == {-1, 0, 1, 2, 3, 128, Bit31, 2147483647}
ProtoTails ==
    {<<>>, <<0>>, <<0, 0>>, <<1, 0>>, <<5, 1, 9>>, <<0, 0, 0, 0, 0, 0, 0, 0>>,
     <<1, 97, 0>>, <<216, 5, 2, 104, 105, 99, 221, 2>>}

ProtoInit ==
    /\ buf = <<>>
    /\ max_recv_len = HARD_MAX_PACKET_LEN_INCL
    /\ res = Idle
    /\ prev = <<>>
    /\ ProtoIdle
    /\ CallIdle
    /\ ConnIdle

\* Packet::decode of module st on the bytes Packet::encode wrote for packet p.
DecodeEncoded(st, p) ==
    /\ dec_in' = [state |-> st, bytes |-> Packet_encode(p.state, p.shape, p.fields),
                  of |-> p.state, shape |-> p.shape, id |-> IdOfShape(p.state, p.shape)]
    /\ dec_out' = Packet_decode(st, Packet_encode(p.state, p.shape, p.fields))
    /\ UNCHANGED <<codecVars, callVars, connVars>>

\* Packet::decode of module st on an id and the bytes that follow it.
DecodeRaw(st, id, tail) ==
    /\ dec_in' = [state |-> st, bytes |-> EncodeVarInt(id) \o tail,
                  of |-> "raw", shape |-> "", id |-> id]
    /\ dec_out' = Packet_decode(st, EncodeVarInt(id) \o tail)
    /\ UNCHANGED <<codecVars, callVars, connVars>>

ProtoNext ==
    \/ \E st \in States, p \in SbPackets : DecodeEncoded(st, p)
    \/ \E st \in States, id \in ProtoIds, tail \in ProtoTails : DecodeRaw(st, id, tail)

ProtoSpec == ProtoInit /\ [][ProtoNext]_vars

\* ------------------------------------------------- one connection's driver

\* A frame as a peer puts it on the wire: a VarInt length prefix, then the
\* packet id and body. `framed` tells whether the bytes are a frame within the
\* hard maximum; shape and fields tell which packet the peer encoded ("": none).
FrameOf(module, shape, fields) ==
    [bytes |-> Encode(IdOfShape(module, shape),
                      Struct_encode(Registry(module)[ArmOfShape(module, shape)].fields,
                                    1, fields),
                      <<>>).dst,
     framed |-> TRUE,
     id |-> IdOfShape(module, shape),
     body |-> Struct_encode(Registry(module)[ArmOfShape(module, shape)].fields, 1, fields),
     shape |-> shape,
     fields |-> fields]

RawFrame(bytes, framed, id, body) ==
    [bytes |-> bytes, framed |-> framed, id |-> id, body |-> body,
     shape |-> "", fields |-> <<>>]

HandshakeTo(next_state) ==
    FrameOf("sb_handshake", "Handshake", <<<<760>>, <<104>>, <<25565>>, <<next_state>>>>)

\* The frames a peer sends: handshakes to Status, to Login and to two invalid
\* states, the Status and Login packets, a packet id no registry declares, a
\* StatusRequest behind a two-byte length prefix, and a prefix declaring one
\* byte more than the hard maximum.
PeerFrames ==
    {HandshakeTo(1), HandshakeTo(2), HandshakeTo(3), HandshakeTo(-1),
     FrameOf("sb_status", "StatusRequest", <<>>),
     FrameOf("sb_status", "PingRequest", <<Ping1>>),
     FrameOf("sb_login", "LoginStart", <<<<97>>, <<0>>>>),
     FrameOf("sb_login", "EncryptionResponse", <<<<7>>, <<>>>>),
     RawFrame(<<1, 5>>, TRUE, 5, <<>>),
     RawFrame(<<129, 0, 0>>, TRUE, 0, <<>>),
     RawFrame(<<129, 128, 128, 1>>, FALSE, 0, <<>>)}

\* run_peer_listener up to its loop: RawPeerStream::new with the hard maximum,
\* state = PeerState::Handshake.
ConnInit ==
    /\ buf = <<>>
    /\ max_recv_len = CapRecvLen(HARD_MAX_PACKET_LEN_INCL)
    /\ res = Idle
    /\ prev = <<>>
    /\ ProtoIdle
    /\ CallIdle
    /\ ConnIdle

\* The peer sends one more frame.
PeerSend(f) ==
    /\ nsent < MaxFrames
    /\ wire' = wire \o f.bytes
    /\ pending' = Append(pending, f)
    /\ nsent' = nsent + 1
    /\ UNCHANGED <<codecVars, protoVars, callVars, state, pc, written, last>>

\* peer_stream.read(): the socket hands the next byte sent to the receive buffer.
SocketRecv ==
    /\ pc = "running"
    /\ wire # <<>>
    /\ buf' = Append(buf, Head(wire))
    /\ wire' = Tail(wire)
    /\ res' = Idle
    /\ prev' = <<>>
    /\ UNCHANGED <<max_recv_len, protoVars, callVars, state, pc, written, last, pending, nsent>>

\* The body of the loop of run_peer_listener on a frame read() returned.
Poll_handled(h) ==
    /\ state' = h.state
    /\ pc' = h.pc
    /\ written' = written \o h.out
    /\ last' = h.packet
    /\ pending' = IF pending = <<>> THEN <<>> ELSE Tail(pending)

\* peer_stream.read() once the codec's session is dropped: a frame goes to the
\* loop body, `packet?` returns a framing error, Ok(None) waits for more bytes.
Poll_dropped(r, d) ==
    /\ buf' = d.bytes
    /\ res' = [kind |-> r.kind, err |-> r.err, id |-> r.id,
               body |-> r.body, reserved |-> d.reserved]
    /\ prev' = buf
    /\ IF r.kind = "packet" THEN Poll_handled(Handle(state, EncodeVarInt(r.id) \o r.body))
       ELSE IF r.kind = "err"
       THEN pc' = AfterError /\ UNCHANGED <<state, written, last, pending>>
       ELSE UNCHANGED <<state, pc, written, last, pending>>

Poll_decoded(r) == Poll_dropped(r, SessionDrop(buf, r.post))

\* One turn of `while let Some(packet) = peer_stream.read().await`: the codec
\* decodes from the receive buffer and the loop body handles what it returns.
Poll ==
    /\ pc = "running"
    /\ Poll_decoded(Decode(buf, max_recv_len))
    /\ UNCHANGED <<max_recv_len, protoVars, callVars, wire, nsent>>

ConnNext ==
    \/ \E f \in PeerFrames : PeerSend(f)
    \/ SocketRecv
    \/ Poll

ConnSpec == ConnInit /\ [][ConnNext]_vars

\* --------------------------------------------------------- Encoder::encode

\* The lengths of the bodies handed to the encoder: short ones and ones that
\* bring id_len + body.len() just below, to and above the hard maximum.
EncBodySizes ==
    <<0, 1, 3, 127,
      HARD_MAX_PACKET_LEN_INCL - 5, HARD_MAX_PACKET_LEN_INCL - 4,
      HARD_MAX_PACKET_LEN_INCL - 2, HARD_MAX_PACKET_LEN_INCL - 1,
      HARD_MAX_PACKET_LEN_INCL>>

\* The b-th body: EncBodySizes[b] bytes 7, 14, 21, ...
EncBodies(b) == [i \in 1 .. EncBodySizes[b] |-> (7 * i) % 256]

\* The packet ids handed to the encoder: one, two, three and five bytes long.
EncIds == {0, 1, 128, 16384, U32_MAX}

\* What the destination buffer holds before the call.
EncDsts == {<<>>, <<9>>, <<9, 200>>, <<0, 0, 0>>}

\* The calls made: every id with every short body onto every buffer, and with
\* every long body onto one.
EncCalls ==
    {c \in EncIds \X (1 .. Len(EncBodySizes)) \X EncDsts :
        EncBodySizes[c[2]] < 128 \/ c[3] = <<9>>}

EncInit == OthersIdle /\ CallIdle

\* Encoder::encode(RawPacket { id, body }, dst), the body being EncBodies(b).
EncodeOnto(id, b, dst) ==
    /\ call = NoCall
    /\ call' = [fn |-> "encode", args |-> <<id, b, dst>>]
    /\ ret' = Encode(id, EncBodies(b), dst)
    /\ OthersUnchanged

EncNext == \E c \in EncCalls : EncodeOnto(c[1], c[2], c[3])

EncSpec == EncInit /\ [][EncNext]_vars

\* ------------------------------------------------------ VarInt and VarLong

\* util::var_int::decode_var_i32_streaming and encode_var_u32: the loops of
\* VarInt::decode_streaming and VarInt::encode_streaming, statement for
\* statement.
decode_var_i32_streaming(bs, pos) == DecodeVarLoop(bs, pos, 0, 0)
encode_var_u32(value) == EncodeVarLoop(value)

\* raft-net: what decode_cx returns, the cursor at offset pos afterwards.
CxOk(val, pos) == [st |-> "ok", err |-> "", val |-> val, pos |-> pos]
CxErr(err, pos) == [st |-> "err", err |-> err, val |-> 0, pos |-> pos]

Mut_TooBigAt(position, width) == position + 7 >= width

\* raft-net VarInt::decode_cx and VarLong::decode_cx: `position >= 32`, `>= 64`.
TooBigAt(position, width) == position >= width

RECURSIVE VarInt_decode_cx_loop(_, _, _, _)
\* raft-net VarInt::decode_cx: the loop; u8::decode fails when no byte is left.
VarInt_decode_cx_loop(bs, pos, value, position) ==
    IF pos >= Len(bs) THEN CxErr("not_enough_data", pos)
    ELSE IF bs[pos + 1] < 128
    THEN CxOk(BitOr(value, Shl32(bs[pos + 1] % 128, position)), pos + 1)
    ELSE IF TooBigAt(position + 7, 32) THEN CxErr("too_big", pos + 1)
    ELSE VarInt_decode_cx_loop(bs, pos + 1,
                               BitOr(value, Shl32(bs[pos + 1] % 128, position)),
                               position + 7)

VarInt_decode_cx(bs) == VarInt_decode_cx_loop(bs, 0, 0, 0)

\* A u64 or i64 is the function from 0 .. 63 to its bits, bit 0 the lowest.
Zero64 == [i \in 0 .. 63 |-> 0]

\* value | ((seg as u64) << position), for a seven-bit seg and position < 64.
ShlOr64(value, seg, position) ==
    [i \in 0 .. 63 |->
        IF i >= position /\ i < position + 7 /\ (seg \div (2 ^ (i - position))) % 2 = 1
        THEN 1
        ELSE value[i]]

RECURSIVE VarLong_decode_cx_loop(_, _, _, _)
\* raft-net VarLong::decode_cx: the loop.
VarLong_decode_cx_loop(bs, pos, value, position) ==
    IF pos >= Len(bs) THEN CxErr("not_enough_data", pos)
    ELSE IF bs[pos + 1] < 128
    THEN CxOk(ShlOr64(value, bs[pos + 1] % 128, position), pos + 1)
    ELSE IF TooBigAt(position + 7, 64) THEN CxErr("too_big", pos + 1)
    ELSE VarLong_decode_cx_loop(bs, pos + 1,
                                ShlOr64(value, bs[pos + 1] % 128, position),
                                position + 7)

VarLong_decode_cx(bs) == VarLong_decode_cx_loop(bs, 0, Zero64, 0)

\* The i32 values that are encoded: the ends of every encoded length, the
\* negative ones included.
VarValues ==
    {0, 1, 127, 128, 255, 760, 16383, 16384, 25565, 2097151, 2097152,
     268435455, 268435456, 2147483647, -1, -2, -128, -129, -2097152,
     Bit31, Bit31 + 1}

\* What follows the encoded bytes in the buffer.
VarTails == {<<>>, <<0>>, <<128>>, <<255, 1>>}

\* n bytes c.
Run(n, c) == [i \in 1 .. n |-> c]

\* The byte strings that are decoded: up to eleven bytes with the continuation
\* bit set, then nothing, a last byte, or a last byte and one more.
VarInputs ==
    {Run(n, c) \o fin :
        n \in 0 .. 11, c \in {128, 255}, fin \in {<<>>, <<0>>, <<127>>, <<1, 128>>}}
    \cup {<<129, 0>>, <<128, 255, 1>>, <<255, 128, 255, 128, 15>>,
          <<128, 128, 128, 128, 112>>}

VarInit == OthersIdle /\ CallIdle

\* VarInt(v).encode_streaming, then VarInt::decode_streaming on what it wrote
\* followed by tail.
VarIntRoundTrip(v, tail) ==
    /\ call = NoCall
    /\ call' = [fn |-> "VarInt", args |-> <<v, tail>>]
    /\ ret' = [bytes |-> EncodeVarInt(v), dec |-> DecodeVarInt(EncodeVarInt(v) \o tail, 0)]
    /\ OthersUnchanged

\* encode_var_u32(v), then decode_var_i32_streaming on what it wrote followed
\* by tail.
VarI32RoundTrip(v, tail) ==
    /\ call = NoCall
    /\ call' = [fn |-> "var_i32", args |-> <<v, tail>>]
    /\ ret' = [bytes |-> encode_var_u32(v),
               dec |-> decode_var_i32_streaming(encode_var_u32(v) \o tail, 0)]
    /\ OthersUnchanged

\* decode_var_i32_streaming on a cursor at the start of bs.
VarI32Decode(bs) ==
    /\ call = NoCall
    /\ call' = [fn |-> "decode_var_i32_streaming", args |-> <<bs>>]
    /\ ret' = decode_var_i32_streaming(bs, 0)
    /\ OthersUnchanged

\* raft-net VarInt::decode_cx on a cursor at the start of bs.
VarIntDecodeCx(bs) ==
    /\ call = NoCall
    /\ call' = [fn |-> "VarInt::decode_cx", args |-> <<bs>>]
    /\ ret' = VarInt_decode_cx(bs)
    /\ OthersUnchanged

\* raft-net VarLong::decode_cx on a cursor at the start of bs.
VarLongDecodeCx(bs) ==
    /\ call = NoCall
    /\ call' = [fn |-> "VarLong::decode_cx", args |-> <<bs>>]
    /\ ret' = VarLong_decode_cx(bs)
    /\ OthersUnchanged

VarNext ==
    \/ \E v \in VarValues, tail \in VarTails : VarIntRoundTrip(v, tail)
    \/ \E v \in VarValues, tail \in VarTails : VarI32RoundTrip(v, tail)
    \/ \E bs \in VarInputs : VarI32Decode(bs)
    \/ \E bs \in VarInputs : VarIntDecodeCx(bs)
    \/ \E bs \in VarInputs : VarLongDecodeCx(bs)

VarSpec == VarInit /\ [][VarNext]_vars

\* ------------------------------------------ raft-net VarInt / VarLong encode_cx

\* Bit i of a word.
WordBit(w, i) ==
    IF i = 31 THEN (IF w < 0 THEN 1 ELSE 0) ELSE (Low31(w) \div (2 ^ i)) % 2

\* The i64 whose high and low 32 bits are the words hi and lo.
Bits64(hi, lo) ==
    [i \in 0 .. 63 |-> IF i < 32 THEN WordBit(lo, i) ELSE WordBit(hi, i - 32)]

\* `value as u8` on a u64.
LowByte64(value) ==
    value[0] + 2 * value[1] + 4 * value[2] + 8 * value[3]
        + 16 * value[4] + 32 * value[5] + 64 * value[6] + 128 * value[7]

\* `value >> 7` on a u64.
Shr7_64(value) == [i \in 0 .. 63 |-> IF i + 7 <= 63 THEN value[i + 7] ELSE 0]

\* The i64 values that are encoded, as high and low words.
LongValues ==
    {Bits64(0, 0), Bits64(0, 1), Bits64(0, 127), Bits64(0, 128), Bits64(0, -1),
     Bits64(1, 0), Bits64(2147483647, -1), Bits64(-1, -1), Bits64(Bit31, 0)}

EncCxInit == OthersIdle /\ CallIdle

\* VarInt(v).encode_cx(cursor, ()) up to its loop: `let mut value = self.0 as u32`.
VarIntEncodeCx(v) ==
    /\ call = NoCall
    /\ call' = [fn |-> "VarInt::encode_cx", args |-> <<v>>]
    /\ ret' = [value |-> v, out |-> <<>>]
    /\ OthersUnchanged

\* One turn of the loop of VarInt::encode_cx: the last byte when value has no
\* bit above the low seven, then a byte with the continuation bit, then the
\* shift; nothing leaves the loop.
VarIntEncodeCxLoop ==
    /\ call.fn = "VarInt::encode_cx"
    /\ Len(ret.out) < MaxWritten
    /\ ret' = [value |-> Shr7(ret.value),
               out |-> ret.out
                       \o (IF Shr7(ret.value) = 0 THEN <<ret.value % 256>> ELSE <<>>)
                       \o <<(ret.value % 128) + 128>>]
    /\ UNCHANGED call
    /\ OthersUnchanged

\* VarLong(v).encode_cx(cursor, ()) up to its loop: `let mut value = self.0 as u64`.
VarLongEncodeCx(v) ==
    /\ call = NoCall
    /\ call' = [fn |-> "VarLong::encode_cx", args |-> <<v>>]
    /\ ret' = [value |-> v, out |-> <<>>]
    /\ OthersUnchanged

\* One turn of the loop of VarLong::encode_cx.
VarLongEncodeCxLoop ==
    /\ call.fn = "VarLong::encode_cx"
    /\ Len(ret.out) < MaxWritten
    /\ ret' = [value |-> Shr7_64(ret.value),
               out |-> ret.out
                       \o (IF \A i \in 7 .. 63 : ret.value[i] = 0
                           THEN <<LowByte64(ret.value)>> ELSE <<>>)
                       \o <<(LowByte64(ret.value) % 128) + 128>>]
    /\ UNCHANGED call
    /\ OthersUnchanged

EncCxNext ==
    \/ \E v \in VarValues : VarIntEncodeCx(v)
    \/ VarIntEncodeCxLoop
    \/ \E v \in LongValues : VarLongEncodeCx(v)
    \/ VarLongEncodeCxLoop

EncCxSpec == EncCxInit /\ [][EncCxNext]_vars

\* --------------------------------------- derive_seq_decode!: Summary and View

\* The field types of a record of the MineCodec: the numerics keep no summary,
\* a VarInt keeps its end position.
SeqTypes == {"u8", "u16", "VarInt"}

\* The values that are encoded for a field of each type.
SeqValues(ty) ==
    IF ty = "u8" THEN {7, 255}
    ELSE IF ty = "u16" THEN {258}
    ELSE {300, -1}

\* SerializeInto<MineCodec, _, ()>: to_be_bytes for a numeric, encode_var_u32
\* for a VarInt.
Seq_serialize(ty, v) ==
    IF ty = "u8" THEN <<v>>
    ELSE IF ty = "u16" THEN <<v \div 256, v % 256>>
    ELSE encode_var_u32(v)

RECURSIVE Builder_serialize(_, _, _)
\* derive_encode!: Builder::serialize writes the fields from the i-th on, in
\* declaration order.
Builder_serialize(tys, vals, i) ==
    IF i > Len(tys) THEN <<>>
    ELSE Seq_serialize(tys[i], vals[i]) \o Builder_serialize(tys, vals, i + 1)

\* DeserializeSeqForSimple<MineCodec, ()> for VarInt: Ok(None) is an error.
Seq_VarInt_result(r) ==
    IF r.st = "ok" THEN FOk(<<r.val>>, r.pos)
    ELSE IF r.st = "none" THEN FErr("unterminated", r.pos)
    ELSE FErr("varint_too_long", r.pos)

\* DeserializeSeqForSimple::decode_simple on a ByteCursor at offset pos of bs:
\* read_arr moves the cursor only when it returns the bytes.
Seq_decode_simple(ty, bs, pos) ==
    IF ty = "u8"
    THEN IF CanRead(bs, pos, 1) THEN FOk(<<bs[pos + 1]>>, pos + 1)
         ELSE FErr("end_of_stream", pos)
    ELSE IF ty = "u16"
    THEN IF CanRead(bs, pos, 2) THEN FOk(<<bs[pos + 1] * 256 + bs[pos + 2]>>, pos + 2)
         ELSE FErr("end_of_stream", pos)
    ELSE Seq_VarInt_result(decode_var_i32_streaming(bs, pos))

\* SimpleSummary::from_pos: () is the empty tuple, EndPosSummary(pos) is <<pos>>.
from_pos(ty, pos) == IF ty = "VarInt" THEN <<pos>> ELSE <<>>

\* DeserializeSeqFor::summarize of a simple type, once decode_simple returned.
Seq_summarized(ty, r) ==
    IF r.ok THEN [ok |-> TRUE, sum |-> from_pos(ty, r.pos), pos |-> r.pos]
    ELSE [ok |-> FALSE, sum |-> <<>>, pos |-> r.pos]

Seq_summarize(ty, bs, pos) == Seq_summarized(ty, Seq_decode_simple(ty, bs, pos))

RECURSIVE Record_summarize(_, _, _, _, _)
\* derive_seq_decode!: summarize, after the i-th field was summarized as r.
Record_summarized(tys, i, bs, acc, r) ==
    IF ~r.ok THEN [ok |-> FALSE, sum |-> acc, pos |-> r.pos]
    ELSE Record_summarize(tys, i + 1, bs, r.pos, Append(acc, r.sum))

\* derive_seq_decode!: summarize summarizes the fields in declaration order
\* with one cursor; the Summary is the tuple of the fields' summaries.
Record_summarize(tys, i, bs, pos, acc) ==
    IF i > Len(tys) THEN [ok |-> TRUE, sum |-> acc, pos |-> pos]
    ELSE Record_summarized(tys, i, bs, acc, Seq_summarize(tys[i], bs, pos))

RECURSIVE skippers(_, _, _, _, _)
\* derive_seq_decode!: skippers::<i-th field> on a cursor at offset pos, the
\* offset it leaves the cursor at. It calls the field type's skip with the
\* preceding field's skipper as skip_to_start (for the first field
\* prev_func_call! is `let _ = cursor`, here i = 0). EndPosSummary::skip_to_end
\* sets the cursor to the stored end; ()::skip_to_end runs skip_to_start and
\* then decode_simple, whose result it drops.
skippers(tys, sums, i, bs, pos) ==
    IF i = 0 THEN pos
    ELSE IF sums[i] # <<>> THEN sums[i][1]
    ELSE Seq_decode_simple(tys[i], bs, skippers(tys, sums, i - 1, bs, pos)).pos

\* derive_seq_decode!: View::<i-th field>() of a View whose cursor is at offset
\* start: clone the cursor, skippers::<i-th field>, then the field type's view,
\* which is decode_simple(..).unwrap() (ok = FALSE: the unwrap panics).
View_field(tys, sums, i, bs, start) ==
    Seq_decode_simple(tys[i], bs, skippers(tys, sums, i, bs, start))

\* The records that are encoded: three fields of any of the types.
RecordTypes == {<<a, b, c>> : a \in SeqTypes, b \in SeqTypes, c \in SeqTypes}
RecordValues(tys) ==
    {<<a, b, c>> : a \in SeqValues(tys[1]), b \in SeqValues(tys[2]), c \in SeqValues(tys[3])}

\* What precedes the record in the buffer, and what follows it.
RecordHeads == {<<>>, <<5>>}
RecordTails == {<<>>, <<9, 9>>}

ViewInit == OthersIdle /\ CallIdle

\* Summarize the record that head \o (the encoded vals) \o tail holds at offset
\* Len(head), build its View and call the accessor of the i-th field.
ViewField(tys, vals, head, tail, i) ==
    /\ call = NoCall
    /\ call' = [fn |-> "View::field", args |-> <<tys, vals, head, tail, i>>]
    /\ ret' = [sum |-> Record_summarize(tys, 1, head \o Builder_serialize(tys, vals, 1) \o tail,
                                        Len(head), <<>>),
               at |-> skippers(tys,
                               Record_summarize(tys, 1,
                                   head \o Builder_serialize(tys, vals, 1) \o tail,
                                   Len(head), <<>>).sum,
                               i, head \o Builder_serialize(tys, vals, 1) \o tail, Len(head)),
               view |-> View_field(tys,
                                   Record_summarize(tys, 1,
                                       head \o Builder_serialize(tys, vals, 1) \o tail,
                                       Len(head), <<>>).sum,
                                   i, head \o Builder_serialize(tys, vals, 1) \o tail,
                                   Len(head))]
    /\ OthersUnchanged

\* derive_seq_decode!: skip of the whole record on a cursor at its start, with
\* a skip_to_start that leaves the cursor alone: the last field's skip, chained
\* to the fields before it.
RecordSkip(tys, vals, head, tail) ==
    /\ call = NoCall
    /\ call' = [fn |-> "skip", args |-> <<tys, vals, head, tail>>]
    /\ ret' = [sum |-> Record_summarize(tys, 1, head \o Builder_serialize(tys, vals, 1) \o tail,
                                        Len(head), <<>>),
               at |-> skippers(tys,
                               Record_summarize(tys, 1,
                                   head \o Builder_serialize(tys, vals, 1) \o tail,
                                   Len(head), <<>>).sum,
                               Len(tys), head \o Builder_serialize(tys, vals, 1) \o tail,
                               Len(head))]
    /\ OthersUnchanged

ViewNext ==
    \/ \E tys \in RecordTypes : \E vals \in RecordValues(tys) :
         \E head \in RecordHeads, tail \in RecordTails, i \in 1 .. 3 :
            ViewField(tys, vals, head, tail, i)
    \/ \E tys \in RecordTypes : \E vals \in RecordValues(tys) :
         \E head \in RecordHeads, tail \in RecordTails :
            RecordSkip(tys, vals, head, tail)

ViewSpec == ViewInit /\ [][ViewNext]_vars

\* -------------------------------------------------------------------- strings

I32_MAX == 2147483647

\* usize::MAX in WriteCodepointCounter::codepoints: codepoints() is None.
NoCodepoints == -1

RECURSIVE WriteCodepointCounter_write(_, _, _, _, _)
\* WriteCodepointCounter::write on a fresh counter, from the i-th byte of bytes (the buf argument):
\* the byte is stored at buffer[offset], then buffer[0..offset], the bytes
\* BEFORE it, are tested with str::from_utf8. What is returned is the
\* codepoints field afterwards.
WriteCodepointCounter_write(bytes, i, buffer, offset, codepoints) ==
    IF i > Len(bytes) THEN codepoints
    ELSE IF Utf8Count(SubSeq([buffer EXCEPT ![offset + 1] = bytes[i]], 1, offset), 1) >= 0
    THEN WriteCodepointCounter_write(bytes, i + 1, [buffer EXCEPT ![offset + 1] = bytes[i]],
                                     0, codepoints + 1)
    ELSE IF offset + 1 >= 4 THEN NoCodepoints
    ELSE WriteCodepointCounter_write(bytes, i + 1, [buffer EXCEPT ![offset + 1] = bytes[i]],
                                     offset + 1, codepoints)

\* WriteCodepointCounter::default(), write_all(data), then the codepoints field.
WriteCodepointCounter_count(data) ==
    WriteCodepointCounter_write(data, 1, <<0, 0, 0, 0>>, 0, 0)

\* DeserializeSeqForSimple<MineCodec, ()> for VarUint: a negative VarInt is an
\* error.
Seq_VarUint_result(r) == IF r.ok /\ r.val[1] < 0 THEN FErr("negative", r.pos) ELSE r

Seq_VarUint_decode(bs, pos) ==
    Seq_VarUint_result(Seq_VarInt_result(decode_var_i32_streaming(bs, pos)))

Mut_max_size(max_len) == max_len * 5

\* String::summarize: max_len.checked_mul(4), for a max_len that does not panic.
max_size(max_len) == max_len * 4

\* String::summarize, once the payload is counted.
String_counted(max_len, start_pos, end, codepoints) ==
    IF codepoints = NoCodepoints THEN FErr("invalid_utf8", end)
    ELSE IF max_len # NoMax /\ codepoints > max_len THEN FErr("string_too_long", end)
    ELSE FOk(<<start_pos>>, end)

\* String::summarize, once the size is read: the panic when 4 * max_len is no
\* i32, the byte-length check, read_slice, then the codepoint counter.
String_sized(max_len, bs, start_pos, size) ==
    IF ~size.ok THEN size
    ELSE IF max_len # NoMax /\ max_len > I32_MAX \div 4 THEN FErr("panic", size.pos)
    ELSE IF max_len # NoMax /\ size.val[1] > max_size(max_len)
    THEN FErr("string_bytes_too_long", size.pos)
    ELSE IF ~CanRead(bs, size.pos, size.val[1]) THEN FErr("string_truncated", size.pos)
    ELSE String_counted(max_len, start_pos, size.pos + size.val[1],
             WriteCodepointCounter_count(SubSeq(bs, size.pos + 1, size.pos + size.val[1])))

\* DeserializeSeqFor<MineCodec, Option<u32>> for String: summarize on a cursor
\* at offset pos of bs; the Summary is the start position.
String_summarize(max_len, bs, pos) == String_sized(max_len, bs, pos, Seq_VarUint_decode(bs, pos))

\* String::view, once the size is read again: the bytes that
\* str::from_utf8_unchecked is given.
String_viewed(bs, size) == SubSeq(bs, size.pos + 1, size.pos + size.val[1])

\* DeserializeSeqFor<MineCodec, Option<u32>> for String: view.
String_view(summary, bs) == String_viewed(bs, Seq_VarUint_decode(bs, summary))

RECURSIVE utf16_loop(_, _, _, _)
\* raft-net utf16_codepoints: the loop over text.chars() from byte index i.
utf16_loop(text, i, counter, stop_counting_after) ==
    IF i > Len(text) THEN counter
    ELSE IF counter + (IF Utf8Width(text[i]) = 4 THEN 2 ELSE 1) > stop_counting_after
    THEN counter + (IF Utf8Width(text[i]) = 4 THEN 2 ELSE 1)
    ELSE utf16_loop(text, i + Utf8Width(text[i]),
                    counter + (IF Utf8Width(text[i]) = 4 THEN 2 ELSE 1),
                    stop_counting_after)

\* raft-net utf16_codepoints.
utf16_codepoints(text, stop_counting_after) == utf16_loop(text, 1, 0, stop_counting_after)

\* raft-net BufString::decode_cx, once the payload is read: try_new, then the
\* comparison of utf16_codepoints(&utf_8, byte_len) with byte_len.
BufString_checked(max_len, utf_8, byte_len, end) ==
    IF Utf8Count(utf_8, 1) < 0 THEN CxErr("invalid_utf8", end)
    ELSE IF utf16_codepoints(utf_8, byte_len) > byte_len THEN CxErr("too_many_utf16", end)
    ELSE CxOk(utf_8, end)

\* raft-net BufString::decode_cx, once the length is read: usize::try_from, the
\* check against max_len * 3, then Bytes::decode_cx.
BufString_sized(max_len, bs, len) ==
    IF len.st # "ok" THEN len
    ELSE IF len.val < 0 THEN CxErr("length_negative", len.pos)
    ELSE IF len.val > max_len * 3 THEN CxErr("utf8_length_beyond_limit", len.pos)
    ELSE IF len.val > Len(bs) - len.pos THEN CxErr("not_enough_data", len.pos)
    ELSE BufString_checked(max_len, SubSeq(bs, len.pos + 1, len.pos + len.val),
                           len.val, len.pos + len.val)

\* raft-net Serde<usize> for BufString: decode_cx on a cursor at the start of bs.
BufString_decode_cx(max_len, bs) == BufString_sized(max_len, bs, VarInt_decode_cx(bs))

\* The maximum lengths asked for; the last is one whose fourfold is no i32.
StrSmallMaxes == {0, 1, 2, 3}
StrMaxes == StrSmallMaxes \cup {536870912}

\* The byte lengths declared in front of a payload.
StrSizes == {-1, 0, 1, 2, 3, 4, 5, 8, 9, 12, 13, 200}

\* The bytes that follow the length: ASCII, two-, three- and four-byte
\* sequences, and bytes that are not UTF-8.
StrPayloads ==
    {<<>>, <<97>>, <<97, 98>>, <<97, 98, 99>>, <<195, 169>>, <<226, 130, 172>>,
     <<240, 159, 152, 128>>, <<240, 159, 152, 128, 240, 159, 152, 128>>,
     <<97, 240, 159, 152, 128>>, Run(13, 97),
     <<255>>, <<195>>, <<128>>, <<97, 192, 128>>, <<237, 160, 128>>, <<226, 130>>}

StrInit == OthersIdle /\ CallIdle

\* NetString::decode with Some(max_len) on a cursor at the start of the
\* declared size followed by payload.
NetStringDecode(max_len, size, payload) ==
    /\ call = NoCall
    /\ call' = [fn |-> "NetString::decode", args |-> <<max_len, size, payload>>]
    /\ ret' = NetString_decode(max_len, EncodeVarInt(size) \o payload, 0)
    /\ OthersUnchanged

\* String::summarize with Some(max_len) on the same bytes and, when it returns
\* a Summary, String::view of it.
StringSummarize(max_len, size, payload) ==
    /\ call = NoCall
    /\ call' = [fn |-> "String::summarize", args |-> <<max_len, size, payload>>]
    /\ ret' = [String_summarize(max_len, EncodeVarInt(size) \o payload, 0) EXCEPT
                 !.val = IF String_summarize(max_len, EncodeVarInt(size) \o payload, 0).ok
                         THEN String_view(0, EncodeVarInt(size) \o payload)
                         ELSE <<>>]
    /\ OthersUnchanged

\* raft-net BufString::decode_cx with max_len on the same bytes.
BufStringDecodeCx(max_len, size, payload) ==
    /\ call = NoCall
    /\ call' = [fn |-> "BufString::decode_cx", args |-> <<max_len, size, payload>>]
    /\ ret' = BufString_decode_cx(max_len, EncodeVarInt(size) \o payload)
    /\ OthersUnchanged

\* SerializeInto<MineCodec, String, Option<u32>>::serialize with Some(max_len),
\* once the text is counted: the length check on counter.codepoints(), then
\* VarInt(counter.bytes()) and the text.
String_serialized(max_len, text, curr_len) ==
    IF curr_len = NoCodepoints THEN [ok |-> FALSE, err |-> "panic", bytes |-> <<>>]
    ELSE IF max_len # NoMax /\ curr_len > max_len
    THEN [ok |-> FALSE, err |-> "string_too_long", bytes |-> <<>>]
    ELSE [ok |-> TRUE, err |-> "", bytes |-> encode_var_u32(Len(text)) \o text]

String_serialize(max_len, text) ==
    String_serialized(max_len, text, WriteCodepointCounter_count(text))

\* The texts that are serialized: the payloads that are well-formed UTF-8.
StrTexts == {p \in StrPayloads : Utf8Count(p, 1) >= 0}

\* What summarize and view make of what serialize returned.
StringReadBack(max_len, ser, sum) ==
    [ser |-> ser, sum |-> sum,
     view |-> IF ser.ok /\ sum.ok THEN String_view(sum.val[1], ser.bytes) ELSE <<>>]

\* text.serialize(stream, Some(max_len)) onto an empty stream, then
\* String::summarize with Some(max_len) and String::view on what was written.
StringRoundTrip(max_len, text) ==
    /\ call = NoCall
    /\ call' = [fn |-> "String::serialize", args |-> <<max_len, text>>]
    /\ ret' = StringReadBack(max_len, String_serialize(max_len, text),
                             IF String_serialize(max_len, text).ok
                             THEN String_summarize(max_len,
                                                   String_serialize(max_len, text).bytes, 0)
                             ELSE FErr("nothing_written", 0))
    /\ OthersUnchanged

StrNext ==
    \/ \E max_len \in StrSmallMaxes, size \in StrSizes, payload \in StrPayloads :
         NetStringDecode(max_len, size, payload)
    \/ \E max_len \in StrMaxes, size \in StrSizes, payload \in StrPayloads :
         StringSummarize(max_len, size, payload)
    \/ \E max_len \in StrMaxes, size \in StrSizes, payload \in StrPayloads :
         BufStringDecodeCx(max_len, size, payload)
    \/ \E max_len \in StrSmallMaxes, text \in StrTexts : StringRoundTrip(max_len, text)

StrSpec == StrInit /\ [][StrNext]_vars

\* ------------------------------------------------------ one Interner in use

\* The strings that are interned and looked up.
InternTexts == {<<>>, <<97>>, <<98>>, <<97, 98>>}

InternInit == OthersIdle /\ CallIdle

\* No call on the interner has panicked.
InternerAlive == IF call = NoCall THEN TRUE ELSE ret.st # "panic"

\* What a call of intern or intern_iter that returned r leaves behind.
Interned(fn, str, r) ==
    /\ call' = [fn |-> fn, args |-> <<str>>]
    /\ ret' = [st |-> r.st, id |-> r.id]
    /\ interner' = r.interner
    /\ interned' = IF r.st = "ok" THEN Append(interned, <<str, r.id>>) ELSE interned

\* interner.intern(str).
Intern(str) ==
    /\ InternerAlive
    /\ Len(interned) < MaxInterns
    /\ Interned("intern", str, Interner_intern(interner, str))
    /\ UNCHANGED <<codecVars, protoVars, connVars>>

\* interner.intern_iter(str.chars()).
InternIter(str) ==
    /\ InternerAlive
    /\ Len(interned) < MaxInterns
    /\ Interned("intern_iter", str, Interner_intern(interner, str))
    /\ UNCHANGED <<codecVars, protoVars, connVars>>

\* interner.decode(h) of an Intern returned before.
DecodeIntern(h) ==
    /\ InternerAlive
    /\ \E i \in 1 .. Len(interned) : interned[i][2] = h
    /\ call' = [fn |-> "decode", args |-> <<h>>]
    /\ ret' = Interner_decode(interner, h)
    /\ UNCHANGED <<codecVars, protoVars, connVars, interner, interned>>

\* interner.find_intern(text).
FindIntern(text) ==
    /\ InternerAlive
    /\ call' = [fn |-> "find_intern", args |-> <<text>>]
    /\ ret' = Interner_find_intern(interner, text)
    /\ UNCHANGED <<codecVars, protoVars, connVars, interner, interned>>

InternNext ==
    \/ \E str \in InternTexts : Intern(str)
    \/ \E str \in InternTexts : InternIter(str)
    \/ \E h \in 0 .. (MaxInterns - 1) : DecodeIntern(h)
    \/ \E text \in InternTexts : FindIntern(text)

InternSpec == InternInit /\ [][InternNext]_vars

\* ------------------------------------------- JsonDocument and schema views
\* A JsonValue is its kind and a sequence v: the Intern's id of a String, <<1>>
\* or <<0>> of a Boolean, the number of a Number, the id of an Object, <<>> of
\* Null. A JSON text is given as what the parser reports of it to its
\* ParseDelegate: the (key, value) pairs of the root object, in order, a value
\* of kind String carrying its characters.

JsonNull == [kind |-> "Null", v |-> <<>>]

\* HashMap::insert into JsonDocumentParser::map, an entry per JsonKey.
MapInsert(map, parent, key, value) ==
    {e \in map : ~(e.parent = parent /\ e.key = key)}
        \cup {[parent |-> parent, key |-> key, value |-> value]}

\* ParseDelegate::string, once the text is interned.
Delegate_string(r, map, gen) ==
    [st |-> r.st, interner |-> r.interner, map |-> map, gen |-> gen,
     value |-> [kind |-> "String", v |-> <<r.id>>]]

\* ParseDelegate::begin_array, array_value for each element and end_array, for
\* an array of scalars: the array takes the next gen as its id and its
\* elements the keys 0, 1, ...
Delegate_array(elems, it, map, gen) ==
    [st |-> "ok", interner |-> it, gen |-> gen + 1,
     map |-> map \cup {[parent |-> gen + 1, key |-> i - 1, value |-> elems[i]] :
                          i \in 1 .. Len(elems)},
     value |-> [kind |-> "Array", v |-> <<gen + 1, Len(elems)>>]]

\* ParseDelegate::null / boolean / number / string, and an array.
Delegate_value(value, it, map, gen) ==
    IF value.kind = "String" THEN Delegate_string(Interner_intern(it, value.v), map, gen)
    ELSE IF value.kind = "Array" THEN Delegate_array(value.elems, it, map, gen)
    ELSE [st |-> "ok", interner |-> it, map |-> map, gen |-> gen, value |-> value]

RECURSIVE Delegate_object(_, _, _, _, _, _)
\* ParseDelegate::object_value: the entry (object.id, key.id) is inserted.
Delegate_valued(pairs, i, id, key, val) ==
    IF val.st = "panic"
    THEN [st |-> "panic", interner |-> val.interner, map |-> val.map, root |-> JsonNull]
    ELSE Delegate_object(pairs, i + 1, id, val.interner,
                         MapInsert(val.map, id, key, val.value), val.gen)

\* ParseDelegate::object_key interned the key as k; the value is parsed next.
Delegate_keyed(pairs, i, id, map, gen, k) ==
    IF k.st = "panic" THEN [st |-> "panic", interner |-> k.interner, map |-> map, root |-> JsonNull]
    ELSE Delegate_valued(pairs, i, id, k.id, Delegate_value(pairs[i][2], k.interner, map, gen))

\* The delegate calls for the pairs of the object id from the i-th on, then
\* end_object.
Delegate_object(pairs, i, id, it, map, gen) ==
    IF i > Len(pairs)
    THEN [st |-> "ok", interner |-> it, map |-> map, root |-> [kind |-> "Object", v |-> <<id>>]]
    ELSE Delegate_keyed(pairs, i, id, map, gen, Interner_intern(it, pairs[i][1]))

\* JsonDocument::parse of a text whose root is an object: begin_object makes
\* gen 1.
JsonDocument_parse(pairs) == Delegate_object(pairs, 1, 1, Interner_default, {}, 1)

\* JsonDocument::array_element.
array_element(document, arr, index) ==
    IF \E e \in document.map : e.parent = arr /\ e.key = index
    THEN [st |-> "some",
          value |-> (CHOOSE e \in document.map : e.parent = arr /\ e.key = index).value]
    ELSE [st |-> "none", value |-> JsonNull]

\* JsonDocument::object_field, once find_intern returned k.
object_found(document, obj, k) ==
    IF k.st = "panic" THEN [st |-> "panic", value |-> JsonNull]
    ELSE IF k.st = "some" /\ \E e \in document.map : e.parent = obj /\ e.key = k.id
    THEN [st |-> "some",
          value |-> (CHOOSE e \in document.map : e.parent = obj /\ e.key = k.id).value]
    ELSE [st |-> "none", value |-> JsonNull]

\* JsonDocument::object_field (SchemaDocument::object_entry).
object_field(document, obj, key) ==
    object_found(document, obj, Interner_find_intern(document.interner, key))

\* The field types of a schema and the JSON kind each declares.
IsOption(ty) == ty \in {"Option<String>", "Option<bool>"}
KindOf(ty) == IF ty \in {"String", "Option<String>"} THEN "String" ELSE "Boolean"

\* DeserializeSchema::make_shortcut for String, bool and Option<T>: Option
\* takes an unassigned key and null as None and hands every other value to T.
make_shortcut(ty, entry) ==
    IF IsOption(ty) /\ (entry.st = "none" \/ entry.value.kind = "Null")
    THEN [st |-> "ok", none |-> TRUE, v |-> <<>>]
    ELSE IF entry.st = "some" /\ entry.value.kind = KindOf(ty)
    THEN [st |-> "ok", none |-> FALSE, v |-> entry.value.v]
    ELSE [st |-> "err", none |-> FALSE, v |-> <<>>]

\* DeserializeSchema::view_shortcut, once a String's text is decoded: the view
\* of a String holds document.string_value(intern).
view_decoded(shortcut, text) ==
    [st |-> text.st, none |-> FALSE, v |-> text.text]

\* DeserializeSchema::view_shortcut for String, bool and Option<T>.
view_shortcut(document, ty, shortcut) ==
    IF shortcut.none \/ KindOf(ty) = "Boolean" THEN shortcut
    ELSE view_decoded(shortcut, Interner_decode(document.interner, shortcut.v[1]))

\* derive_schema_decode!: View::$field_name, once object_entry returned entry
\* and make_shortcut returned shortcut: the error gets the context "Failed to
\* access field `name` of Struct.".
View_viewed(document, struct, field, shortcut) ==
    IF shortcut.st = "err"
    THEN [st |-> "err", field |-> field.name, of |-> struct, none |-> FALSE, v |-> <<>>]
    ELSE view_shortcut(document, field.ty, shortcut) @@ [field |-> field.name, of |-> struct]

View_entered(document, struct, field, entry) ==
    IF entry.st = "panic"
    THEN [st |-> "panic", field |-> field.name, of |-> struct, none |-> FALSE, v |-> <<>>]
    ELSE View_viewed(document, struct, field, make_shortcut(field.ty, entry))

\* derive_schema_decode!: View::$field_name of the View of object obj.
View_get(document, obj, struct, field) ==
    View_entered(document, struct, field, object_field(document, obj, field.name))

\* ArrayView::get for T = bool: None past the elements, else view_object of
\* the element.
ArrayView_get(document, arr, i) ==
    IF array_element(document, arr, i).st = "none" THEN [st |-> "none", v |-> <<>>]
    ELSE [st |-> make_shortcut("bool", array_element(document, arr, i)).st,
          v |-> make_shortcut("bool", array_element(document, arr, i)).v]

RECURSIVE ArrayView_validate_deep(_, _, _)
\* SchemaView for ArrayView::validate_deep: for elem in self.iter() (get(i)
\* for i in 0..len while it is Some), elem?.validate_deep()?.
ArrayView_validate_deep(document, view, i) ==
    IF i >= view.v[2] \/ ArrayView_get(document, view.v[1], i).st = "none" THEN "ok"
    ELSE IF ArrayView_get(document, view.v[1], i).st = "err" THEN "err"
    ELSE ArrayView_validate_deep(document, view, i + 1)

RECURSIVE ArrayView_try_reify(_, _, _, _)
\* SchemaView for ArrayView::try_reify: out.push(elem?.try_reify()?) for elem
\* in self.iter().
ArrayView_try_reify(document, view, i, out) ==
    IF i >= view.v[2] \/ ArrayView_get(document, view.v[1], i).st = "none"
    THEN [st |-> "ok", v |-> out]
    ELSE IF ArrayView_get(document, view.v[1], i).st = "err" THEN [st |-> "err", v |-> <<>>]
    ELSE ArrayView_try_reify(document, view, i + 1,
                             out \o ArrayView_get(document, view.v[1], i).v)

Mut_validate_deep(document, obj, schema, i) == [st |-> "ok", field |-> <<>>, of |-> ""]

RECURSIVE validate_deep(_, _, _, _)
\* derive_schema_decode!: validate_deep, once the i-th accessor returned view
\* (validate_deep of a String, bool or Option view is Ok).
validate_deep_next(document, obj, schema, i, view) ==
    IF view.st # "ok" THEN [st |-> view.st, field |-> view.field, of |-> view.of]
    ELSE validate_deep(document, obj, schema, i + 1)

\* derive_schema_decode!: validate_deep calls the accessors in declaration
\* order and returns the first error.
validate_deep(document, obj, schema, i) ==
    IF i > Len(schema.fields) THEN [st |-> "ok", field |-> <<>>, of |-> ""]
    ELSE validate_deep_next(document, obj, schema, i,
                            View_get(document, obj, schema.name, schema.fields[i]))

RECURSIVE reify(_, _, _, _, _)
\* derive_schema_decode!: reify, once the i-th accessor returned view: the
\* field is None or the view's value.
reify_next(document, obj, schema, i, acc, view) ==
    IF view.st # "ok" THEN [st |-> view.st, val |-> <<>>]
    ELSE reify(document, obj, schema, i + 1,
               Append(acc, [none |-> view.none, v |-> view.v]))

\* derive_schema_decode!: reify builds the record field by field.
reify(document, obj, schema, i, acc) ==
    IF i > Len(schema.fields) THEN [st |-> "ok", val |-> acc]
    ELSE reify_next(document, obj, schema, i, acc,
                    View_get(document, obj, schema.name, schema.fields[i]))

\* DeserializeSchema::view_object on the root for T = Either<Vec<bool>, S>
\* or T = S, S the struct of the schema: Left for an array when T is an
\* Either, Right or S itself for an object, else an error.
Root_view(document, either) ==
    IF document.root.kind = "Array" /\ either THEN "Left"
    ELSE IF document.root.kind = "Object" THEN "Right"
    ELSE "err"

\* impl DeserializeSeqFor for Json<T>::summarize once the text is parsed:
\* view_object on the root, then validate_deep.
Json_summarized(document, either, schema) ==
    IF document.st # "ok" THEN [st |-> "panic", field |-> <<>>, of |-> "parse"]
    ELSE IF Root_view(document, either) = "err" THEN [st |-> "err", field |-> <<>>, of |-> ""]
    ELSE IF Root_view(document, either) = "Left"
    THEN [st |-> ArrayView_validate_deep(document, document.root, 0),
          field |-> <<>>, of |-> ""]
    ELSE validate_deep(document, document.root.v[1], schema, 1)

\* reify_validated and ValidatedArrayView::reify unwrap the result of reify.
Json_reified(r) == IF r.st = "err" THEN [r EXCEPT !.st = "panic"] ELSE r

\* impl DeserializeSeqFor for Json<T>::view, then reify_view:
\* view_object(..).unwrap().assume_valid(), then reify of the validated view.
Json_reify_view(document, either, schema) ==
    IF Root_view(document, either) = "err" THEN [st |-> "panic", val |-> <<>>]
    ELSE IF Root_view(document, either) = "Left"
    THEN Json_reified([st |-> ArrayView_try_reify(document, document.root, 0, <<>>).st,
                       val |-> ArrayView_try_reify(document, document.root, 0, <<>>).v])
    ELSE Json_reified(reify(document, document.root.v[1], schema, 1, <<>>))

\* The field names and texts of the documents, as characters.
K_text == <<116, 101, 120, 116>>
K_bold == <<98, 111, 108, 100>>
K_action == <<97, 99, 116, 105, 111, 110>>
K_value == <<118, 97, 108, 117, 101>>
T_hi == <<104, 105>>
T_yes == <<121, 101, 115>>

\* The schemas: a record of two optional fields and one of two required ones.
Schemas ==
    {[name |-> "ChatComponent",
      fields |-> <<[name |-> K_text, ty |-> "Option<String>"],
                   [name |-> K_bold, ty |-> "Option<bool>"]>>],
     [name |-> "ChatClickEvent",
      fields |-> <<[name |-> K_action, ty |-> "String"],
                   [name |-> K_value, ty |-> "String"]>>]}

\* The documents: a root object of up to two pairs.
JsonKeys == {K_text, K_bold, K_action, K_value}
JsonValues ==
    {[kind |-> "String", v |-> T_hi], [kind |-> "String", v |-> T_yes],
     [kind |-> "Boolean", v |-> <<1>>], [kind |-> "Number", v |-> <<7>>], JsonNull}
JsonPairs == {<<k, x>> : k \in JsonKeys, x \in JsonValues}
JsonDocs == {<<>>} \cup {<<p>> : p \in JsonPairs} \cup {<<p, q>> : p \in JsonPairs, q \in JsonPairs}

\* The texts summarized: the documents above, objects with an array among
\* their values, and arrays of scalars at the root.
JsonArrays ==
    {<<>>,
     <<[kind |-> "Boolean", v |-> <<1>>]>>,
     <<[kind |-> "Boolean", v |-> <<1>>], [kind |-> "Boolean", v |-> <<0>>]>>,
     <<[kind |-> "Boolean", v |-> <<1>>], [kind |-> "Number", v |-> <<7>>]>>,
     <<JsonNull>>}
JsonTexts ==
    {[kind |-> "Object", pairs |-> pairs] : pairs \in JsonDocs}
    \cup {[kind |-> "Object", pairs |-> <<<<k, [kind |-> "Array", elems |-> x]>>>>] :
             k \in JsonKeys, x \in JsonArrays}
    \cup {[kind |-> "Array", elems |-> x] : x \in JsonArrays}

\* JsonDocument::parse of a text whose root is an object or an array of
\* scalars.
JsonDocument_parse_text(text) ==
    IF text.kind = "Object" THEN JsonDocument_parse(text.pairs)
    ELSE [st |-> "ok", interner |-> Interner_default,
          map |-> Delegate_array(text.elems, Interner_default, {}, 0).map,
          root |-> Delegate_array(text.elems, Interner_default, {}, 0).value]

JsonInit == OthersIdle /\ CallIdle

\* JsonDocument::parse, view_object on the root, then validate_deep.
ValidateDeep(schema, pairs) ==
    /\ call = NoCall
    /\ call' = [fn |-> "validate_deep", args |-> <<schema, pairs>>]
    /\ ret' = IF JsonDocument_parse(pairs).st = "ok"
              THEN validate_deep(JsonDocument_parse(pairs), 1, schema, 1)
              ELSE [st |-> "panic", field |-> <<>>, of |-> "parse"]
    /\ OthersUnchanged

\* JsonDocument::parse, view_object on the root, then reify.
Reify(schema, pairs) ==
    /\ call = NoCall
    /\ call' = [fn |-> "reify", args |-> <<schema, pairs>>]
    /\ ret' = IF JsonDocument_parse(pairs).st = "ok"
              THEN reify(JsonDocument_parse(pairs), 1, schema, 1, <<>>)
              ELSE [st |-> "panic", val |-> <<>>]
    /\ OthersUnchanged

\* Json<T>::summarize on a text, for T the struct of the schema or
\* Either<Vec<bool>, T>, then, when it succeeded, Json<T>::view and reify_view
\* of the summary.
JsonSummarize(either, schema, text) ==
    /\ call = NoCall
    /\ call' = [fn |-> "Json::summarize", args |-> <<either, schema, text>>]
    /\ ret' = [summary |-> Json_summarized(JsonDocument_parse_text(text), either, schema),
               reified |->
                   IF Json_summarized(JsonDocument_parse_text(text), either, schema).st = "ok"
                   THEN Json_reify_view(JsonDocument_parse_text(text), either, schema)
                   ELSE [st |-> "", val |-> <<>>]]
    /\ OthersUnchanged

JsonNext ==
    \/ \E schema \in Schemas, pairs \in JsonDocs : ValidateDeep(schema, pairs)
    \/ \E schema \in Schemas, pairs \in JsonDocs : Reify(schema, pairs)
    \/ \E either \in BOOLEAN, schema \in Schemas, text \in JsonTexts :
         JsonSummarize(either, schema, text)

JsonSpec == JsonInit /\ [][JsonNext]_vars

\* ------------------------------------------------------------ CtfeFormatter
\* A u128 is eight 16-bit limbs, the least significant first.

U128_lt(a, b) ==
    \E m \in 1 .. 8 : a[m] < b[m] /\ \A j \in (m + 1) .. 8 : a[j] = b[j]

RECURSIVE U128_sub(_, _, _, _, _)
\* a - b from limb i on, for a >= b.
U128_sub(a, b, i, borrow, acc) ==
    IF i > 8 THEN acc
    ELSE U128_sub(a, b, i + 1, IF a[i] - b[i] - borrow < 0 THEN 1 ELSE 0,
                  Append(acc, (a[i] - b[i] - borrow + 65536) % 65536))

RECURSIVE U128_div(_, _, _, _, _)
\* a / k from limb i down, for a small k.
U128_div(a, k, i, rem, acc) ==
    IF i = 0 THEN acc
    ELSE U128_div(a, k, i - 1, (rem * 65536 + a[i]) % k,
                  <<(rem * 65536 + a[i]) \div k>> \o acc)

RECURSIVE U128_divmod(_, _, _)
\* val / exp and what val -= digit * exp leaves, the quotient counted up to
\* ten: the digit table has no entry from ten on.
U128_divmod(val, exp, digit) ==
    IF digit = 10 \/ U128_lt(val, exp) THEN [digit |-> digit, val |-> val]
    ELSE U128_divmod(U128_sub(val, exp, 1, 0, <<>>), exp, digit + 1)

\* 10u128.pow(38) = 0x4B3B4CA85A86C47A098A224000000000.
U128_pow10_38 == <<0, 0, 8768, 2442, 50298, 23174, 19624, 19259>>

\* CtfeFormatter::<CAP>::new.
CtfeFormatter_new(cap) ==
    [buffer |-> [i \in 1 .. cap |-> 0], len |-> 0, overflowed |-> FALSE]

\* CtfeFormatter::write_str.
write_str(f, str) ==
    IF f.overflowed THEN f
    ELSE IF Len(str) > Len(f.buffer) - f.len THEN [f EXCEPT !.overflowed = TRUE]
    ELSE [f EXCEPT
            !.buffer = [i \in 1 .. Len(f.buffer) |->
                           IF i > f.len /\ i <= f.len + Len(str) THEN str[i - f.len] ELSE @[i]],
            !.len = @ + Len(str)]

\* CtfeFormatter::write_char of an ASCII character.
write_char(f, ch) == write_str(f, <<ch>>)

\* CtfeFormatter::finish.
finish(f) == SubSeq(f.buffer, 1, f.len)

Mut_write_u128_emits(digit, had_first_digit, n) == digit # 0 \/ had_first_digit

\* write_u128: whether the digit of 10^n is written.
write_u128_emits(digit, had_first_digit, n) ==
    digit # 0 \/ had_first_digit \/ n = 0

\* write_u128 before its loop.
write_u128_start(f, val) ==
    [st |-> "loop", f |-> f, val |-> val, exp |-> U128_pow10_38, n |-> 38,
     had_first_digit |-> FALSE]

\* One pass of the loop of write_u128 once val / exp is computed as q: the
\* digit is looked up and written, and the loop ends after the pass of n = 0.
write_u128_pass(w, q) ==
    IF q.digit > 9 THEN [w EXCEPT !.st = "panic"]
    ELSE [st |-> IF w.n = 0 THEN "ok" ELSE "loop",
          f |-> IF write_u128_emits(q.digit, w.had_first_digit, w.n)
                THEN write_char(w.f, 48 + q.digit) ELSE w.f,
          val |-> q.val,
          exp |-> U128_div(w.exp, 10, 8, 0, <<>>),
          n |-> IF w.n = 0 THEN 0 ELSE w.n - 1,
          had_first_digit |-> w.had_first_digit \/ q.digit # 0]

\* One pass of the loop of write_u128.
write_u128_loop(w) == write_u128_pass(w, U128_divmod(w.val, w.exp, 0))

RECURSIVE Decimal(_)
\* The decimal text of a small number.
Decimal(k) ==
    IF k < 10 THEN <<48 + k>> ELSE Append(Decimal(k \div 10), 48 + (k % 10))

\* The text of a sequence of digits.
Digits(ds) == [i \in 1 .. Len(ds) |-> 48 + ds[i]]

\* The numbers written, each with its decimal text: small ones, and 2^64,
\* 10^38 - 1, 10^38, 3 * 10^38, u128::MAX - 1 and u128::MAX.
CtfeNumbers ==
    {[v |-> <<k, 0, 0, 0, 0, 0, 0, 0>>, text |-> Decimal(k)] :
        k \in (0 .. 20) \cup {99, 100, 101, 255, 999, 1000, 10003, 65535}}
    \cup {[v |-> <<0, 0, 0, 0, 1, 0, 0, 0>>,
           text |-> Digits(<<1, 8, 4, 4, 6, 7, 4, 4, 0, 7, 3, 7, 0, 9, 5, 5, 1, 6, 1, 6>>)],
          [v |-> <<65535, 65535, 8767, 2442, 50298, 23174, 19624, 19259>>,
           text |-> Digits([i \in 1 .. 38 |-> 9])],
          [v |-> U128_pow10_38,
           text |-> Digits(<<1>> \o [i \in 1 .. 38 |-> 0])],
          [v |-> <<0, 0, 26304, 7326, 19822, 3988, 58873, 57777>>,
           text |-> Digits(<<3>> \o [i \in 1 .. 38 |-> 0])],
          [v |-> <<65534, 65535, 65535, 65535, 65535, 65535, 65535, 65535>>,
           text |-> Digits(<<3, 4, 0, 2, 8, 2, 3, 6, 6, 9, 2, 0, 9, 3, 8, 4, 6, 3, 4, 6,
                             3, 3, 7, 4, 6, 0, 7, 4, 3, 1, 7, 6, 8, 2, 1, 1, 4, 5, 4>>)],
          [v |-> <<65535, 65535, 65535, 65535, 65535, 65535, 65535, 65535>>,
           text |-> Digits(<<3, 4, 0, 2, 8, 2, 3, 6, 6, 9, 2, 0, 9, 3, 8, 4, 6, 3, 4, 6,
                             3, 3, 7, 4, 6, 0, 7, 4, 3, 1, 7, 6, 8, 2, 1, 1, 4, 5, 5>>)]}

\* The capacities of the formatter: that of the test and a short one.
CtfeCaps == {2, 48}

CtfeInit == OthersIdle /\ CallIdle

\* tests::write_number's check_num: write_u128 is called on a new formatter.
WriteU128(cap, num) ==
    /\ call = NoCall
    /\ call' = [fn |-> "write_u128", args |-> <<cap, num>>]
    /\ ret' = write_u128_start(CtfeFormatter_new(cap), num.v)
    /\ OthersUnchanged

\* The next pass of the loop of the running write_u128.
WriteU128Loop ==
    /\ IF call = NoCall THEN FALSE ELSE ret.st = "loop"
    /\ ret' = write_u128_loop(ret)
    /\ UNCHANGED call
    /\ OthersUnchanged

CtfeNext ==
    \/ \E cap \in CtfeCaps, num \in CtfeNumbers : WriteU128(cap, num)
    \/ WriteU128Loop

CtfeSpec == CtfeInit /\ [][CtfeNext]_vars

\* ------------------------------------------------------------------ Vec<T>

RECURSIVE Vec_loop(_, _, _, _, _, _)
\* impl Codec for Vec<T>::decode: builder.push(T::decode(..)?) once the i-th
\* element decoded as e.
Vec_pushed(ty, bs, i, len, acc, e) ==
    IF ~e.ok THEN e
    ELSE Vec_loop(ty, bs, e.pos, i + 1, len, Append(acc, e.val))

\* impl Codec for Vec<T>::decode: the loop for _ in 0..len.
Vec_loop(ty, bs, pos, i, len, acc) ==
    IF i = len THEN FOk(acc, pos)
    ELSE Vec_pushed(ty, bs, i, len, acc, Field_decode(ty, bs, pos))

\* impl Codec for Vec<T>::decode once the count is decoded as len: the builder
\* is made with the capacity len, then the elements are decoded; capacity is
\* what Vec::with_capacity was asked for.
Vec_counted(ty, bs, len) ==
    IF ~len.ok THEN len @@ [capacity |-> 0]
    ELSE Vec_loop(ty, bs, len.pos, 0, len.val[1], <<>>) @@ [capacity |-> len.val[1]]

\* impl Codec for Vec<T>::decode on a cursor at pos.
Vec_decode(ty, bs, pos) == Vec_counted(ty, bs, VarUint_decode(bs, pos))

\* The element types and the frames decoded: every string of up to three
\* bytes, and counts beyond what follows them.
VecTypes == {"u16", "VarInt"}
VecBytes == {0, 1, 2, 128}
VecInputs ==
    {<<>>} \cup {<<a>> : a \in VecBytes} \cup {<<a, b>> : a \in VecBytes, b \in VecBytes}
    \cup {<<a, b, c>> : a \in VecBytes, b \in VecBytes, c \in VecBytes}
    \cup {<<2, 0, 1, 0, 2>>, <<127, 1, 2>>, <<255, 255, 3, 0, 0>>,
          <<255, 255, 255, 255, 7>>, <<255, 255, 255, 255, 15>>}

VecInit == OthersIdle /\ CallIdle

\* Vec::<T>::decode on a cursor at the start of bs.
VecDecode(ty, bs) ==
    /\ call = NoCall
    /\ call' = [fn |-> "Vec::decode", args |-> <<ty, bs>>]
    /\ ret' = Vec_decode(ty, bs, 0)
    /\ OthersUnchanged

VecNext == \E ty \in VecTypes, bs \in VecInputs : VecDecode(ty, bs)

VecSpec == VecInit /\ [][VecNext]_vars

\* --------------------------------------------- primitives in a framed body

\* bool::decode_simple once u8::decode_simple returned r.
Seq_bool_result(r) ==
    IF ~r.ok THEN r
    ELSE IF r.val[1] \in {0, 1} THEN r
    ELSE FErr("invalid_bool", r.pos)

\* Codec::decode of a primitive on a cursor at pos of the body bs.
Prim_decode(ty, bs, pos) ==
    IF ty = "bool" THEN bool_decode(bs, pos)
    ELSE IF ty = "u8" THEN u8_decode(bs, pos)
    ELSE Field_decode(ty, bs, pos)

\* DeserializeSeqForSimple::decode_simple of a primitive.
Prim_decode_simple(ty, bs, pos) ==
    IF ty = "bool" THEN Seq_bool_result(Seq_decode_simple("u8", bs, pos))
    ELSE Seq_decode_simple(ty, bs, pos)

\* The primitives and the bodies they are decoded from: every string of up to
\* three bytes, and some of five and eight.
PrimTypes == {"VarInt", "u16", "i64", "bool", "u8"}
PrimSimpleTypes == {"VarInt", "u16", "bool", "u8"}
PrimBytes == {0, 1, 2, 128, 255}
PrimBodies ==
    {<<>>} \cup {<<a>> : a \in PrimBytes} \cup {<<a, b>> : a \in PrimBytes, b \in PrimBytes}
    \cup {<<a, b, c>> : a \in PrimBytes, b \in PrimBytes, c \in PrimBytes}
    \cup {<<128, 128, 128, 128>>, <<255, 255, 255, 255, 15>>, <<128, 128, 128, 128, 128>>,
          <<0, 0, 0, 0, 0, 0, 1>>, <<0, 0, 0, 0, 0, 0, 1, 2>>}

PrimInit == OthersIdle /\ CallIdle

\* Codec::decode of a primitive on a cursor at the start of the body.
CodecDecode(ty, bs) ==
    /\ call = NoCall
    /\ call' = [fn |-> "Codec::decode", args |-> <<ty, bs>>]
    /\ ret' = Prim_decode(ty, bs, 0)
    /\ OthersUnchanged

\* decode_simple of a primitive on a cursor at the start of the body.
DecodeSimple(ty, bs) ==
    /\ call = NoCall
    /\ call' = [fn |-> "decode_simple", args |-> <<ty, bs>>]
    /\ ret' = Prim_decode_simple(ty, bs, 0)
    /\ OthersUnchanged

PrimNext ==
    \/ \E ty \in PrimTypes, bs \in PrimBodies : CodecDecode(ty, bs)
    \/ \E ty \in PrimSimpleTypes, bs \in PrimBodies : DecodeSimple(ty, bs)

PrimSpec == PrimInit /\ [][PrimNext]_vars

\* ------------------------------------------- skip of a summarized value

\* The field types that are skipped: u8 keeps no summary, a VarInt its end
\* position, a String (with a maximum) its start position, an Option the
\* summary of its value and its end position.
SkipTypes == {"u8", "VarInt", "String", "Option<u8>"}
SkipMaxLen == 16

\* The bytes that hold a value of each type.
SkipEncodings(ty) ==
    IF ty = "u8" THEN {<<7>>}
    ELSE IF ty = "VarInt" THEN {<<1>>, <<172, 2>>}
    ELSE IF ty = "String" THEN {<<0>>, <<2, 104, 105>>}
    ELSE {<<0>>, <<1, 7>>}

\* Option<T>::summarize once the value is summarized, T = u8.
Option_summarized(r) ==
    IF r.ok THEN [ok |-> TRUE, sum |-> <<1, r.pos>>, pos |-> r.pos]
    ELSE [ok |-> FALSE, sum |-> <<>>, pos |-> r.pos]

\* Option<T>::summarize once bool::decode returned flag.
Option_flagged(bs, flag) ==
    IF ~flag.ok THEN [ok |-> FALSE, sum |-> <<>>, pos |-> flag.pos]
    ELSE IF flag.val[1] = 1 THEN Option_summarized(Seq_summarize("u8", bs, flag.pos))
    ELSE [ok |-> TRUE, sum |-> <<0, flag.pos>>, pos |-> flag.pos]

\* String::summarize as a summary: Ok(start_pos).
String_summary(r) ==
    IF r.ok THEN [ok |-> TRUE, sum |-> r.val, pos |-> r.pos]
    ELSE [ok |-> FALSE, sum |-> <<>>, pos |-> r.pos]

\* DeserializeSeqFor::summarize of a field type on a cursor at offset pos.
Skip_summarize(ty, bs, pos) ==
    IF ty = "String" THEN String_summary(String_summarize(SkipMaxLen, bs, pos))
    ELSE IF ty = "Option<u8>" THEN Option_flagged(bs, Prim_decode_simple("bool", bs, pos))
    ELSE Seq_summarize(ty, bs, pos)

RECURSIVE Struct_summarize(_, _, _, _, _)
\* derive_seq_decode!: summarize, after the i-th field was summarized as r.
Struct_summarized(tys, i, bs, acc, r) ==
    IF ~r.ok THEN [ok |-> FALSE, sum |-> acc, pos |-> r.pos]
    ELSE Struct_summarize(tys, i + 1, bs, r.pos, Append(acc, r.sum))

\* derive_seq_decode!: summarize of a record of these field types.
Struct_summarize(tys, i, bs, pos, acc) ==
    IF i > Len(tys) THEN [ok |-> TRUE, sum |-> acc, pos |-> pos]
    ELSE Struct_summarized(tys, i, bs, acc, Skip_summarize(tys[i], bs, pos))

\* What a skip leaves: the cursor at offset pos, or a panic.
SkipOk(pos) == [st |-> "ok", pos |-> pos]
SkipPanic(of, pos) == [st |-> of, pos |-> pos]

\* ()::skip_to_end once skip_to_start returned: decode_simple, result dropped.
Unit_skipped(ty, bs, started) ==
    IF started.st # "ok" THEN started
    ELSE SkipOk(Seq_decode_simple(ty, bs, started.pos).pos)

\* String::skip once the byte length is decoded: the unwrap, then read_slice,
\* whose result is dropped.
String_skip_sized(bs, size) ==
    IF ~size.ok THEN SkipPanic("unwrap", size.pos)
    ELSE IF CanRead(bs, size.pos, size.val[1]) THEN SkipOk(size.pos + size.val[1])
    ELSE SkipOk(size.pos)

\* String::skip once skip_to_start returned.
String_skipped(bs, started) ==
    IF started.st # "ok" THEN started
    ELSE String_skip_sized(bs, Seq_decode_simple("VarInt", bs, started.pos))

\* String::skip: debug_assert_eq!(cursor.pos(), *summary), in a build with
\* debug assertions.
String_asserts(debug, pos, summary) == ~debug \/ pos = summary

RECURSIVE Struct_skippers(_, _, _, _, _, _)
\* The skip of the i-th field's type on a cursor at offset pos, with the
\* skipper of the field before it as skip_to_start: EndPosSummary::skip_to_end
\* and Option::skip set the cursor and never call skip_to_start, String::skip
\* asserts before it calls it.
Field_skip(tys, sums, i, bs, pos, debug) ==
    IF tys[i] = "VarInt" THEN SkipOk(sums[i][1])
    ELSE IF tys[i] = "Option<u8>" THEN SkipOk(sums[i][2])
    ELSE IF tys[i] = "u8"
    THEN Unit_skipped(tys[i], bs, Struct_skippers(tys, sums, i - 1, bs, pos, debug))
    ELSE IF ~String_asserts(debug, pos, sums[i][1]) THEN SkipPanic("debug_assert", pos)
    ELSE String_skipped(bs, Struct_skippers(tys, sums, i - 1, bs, pos, debug))

\* derive_seq_decode!: skippers::<i-th field> on a cursor at offset pos; for
\* the first field skip_to_start is `let _ = cursor` (i = 0). The record's
\* skip, given a skip_to_start that does nothing, is the last field's.
Struct_skippers(tys, sums, i, bs, pos, debug) ==
    IF i = 0 THEN SkipOk(pos) ELSE Field_skip(tys, sums, i, bs, pos, debug)

\* The records that are skipped: one to three fields of any of the types.
SkipRecords ==
    {<<a>> : a \in SkipTypes} \cup {<<a, b>> : a \in SkipTypes, b \in SkipTypes}
    \cup {<<a, b, c>> : a \in SkipTypes, b \in {"u8", "String"}, c \in SkipTypes}

\* The bytes of a record: those of its fields, in order.
SkipBodies(tys) ==
    IF Len(tys) = 1 THEN SkipEncodings(tys[1])
    ELSE IF Len(tys) = 2
    THEN {a \o b : a \in SkipEncodings(tys[1]), b \in SkipEncodings(tys[2])}
    ELSE {a \o b \o c : a \in SkipEncodings(tys[1]), b \in SkipEncodings(tys[2]),
                        c \in SkipEncodings(tys[3])}

\* What precedes the record in the buffer, and what follows it (nothing, so
\* that the last field may be cut short, or two bytes).
SkipHeads == {<<>>, <<5>>}
SkipTails == {<<>>, <<9, 9>>}

\* The record with its last byte missing.
Truncated(bs) == SubSeq(bs, 1, Len(bs) - 1)

SkipInit == OthersIdle /\ CallIdle

\* Summarize the record at offset Len(head) of bs, then skip it on a cursor at
\* its start with a skip_to_start that does nothing.
StructSkip(tys, head, bs, debug) ==
    /\ call = NoCall
    /\ call' = [fn |-> "skip", args |-> <<tys, Len(head), head \o bs, debug>>]
    /\ ret' = [sum |-> Struct_summarize(tys, 1, head \o bs, Len(head), <<>>),
               skip |-> IF Struct_summarize(tys, 1, head \o bs, Len(head), <<>>).ok
                        THEN Struct_skippers(tys,
                                 Struct_summarize(tys, 1, head \o bs, Len(head), <<>>).sum,
                                 Len(tys), head \o bs, Len(head), debug)
                        ELSE SkipPanic("", 0)]
    /\ OthersUnchanged

\* Summarize the record, build its View and call the accessor of the i-th
\* field: skippers::<i-th field> on a clone of the View's cursor.
StructField(tys, head, bs, i, debug) ==
    /\ call = NoCall
    /\ call' = [fn |-> "View::field", args |-> <<tys, Len(head), head \o bs, debug, i>>]
    /\ ret' = [sum |-> Struct_summarize(tys, 1, head \o bs, Len(head), <<>>),
               skip |-> IF Struct_summarize(tys, 1, head \o bs, Len(head), <<>>).ok
                        THEN Struct_skippers(tys,
                                 Struct_summarize(tys, 1, head \o bs, Len(head), <<>>).sum,
                                 i, head \o bs, Len(head), debug)
                        ELSE SkipPanic("", 0)]
    /\ OthersUnchanged

SkipNext ==
    \/ \E tys \in SkipRecords : \E body \in SkipBodies(tys) :
         \E head \in SkipHeads, tail \in SkipTails, debug \in BOOLEAN :
            \/ StructSkip(tys, head, body \o tail, debug)
            \/ StructSkip(tys, head, Truncated(body), debug)
    \/ \E tys \in SkipRecords : \E body \in SkipBodies(tys) :
         \E head \in SkipHeads, tail \in SkipTails, debug \in BOOLEAN, i \in 1 .. Len(tys) :
            StructField(tys, head, body \o tail, i, debug)

SkipSpec == SkipInit /\ [][SkipNext]_vars

\* ------------------------------------------------------ raft-net DecodeError

\* ItemPathPart::Named(name) and ItemPathPart::Indexed(index).
Named(name) == [tag |-> "Named", name |-> name, index |-> 0]
Indexed(index) == [tag |-> "Indexed", name |-> "", index |-> index]

\* impl Display for ItemPathPart.
ItemPathPart_fmt(part) == IF part.tag = "Named" THEN part.name ELSE ToString(part.index)

\* DecodeError::new_static: no path, no kind (None is "").
DecodeError_new(message) == [item_path |-> <<>>, item_kind |-> "", message |-> message]

\* DecodeError::with_kind (set_kind).
with_kind(err, kind) == [err EXCEPT !.item_kind = kind]

Mut_with_path(err, scope) == [err EXCEPT !.item_path = <<scope>> \o @]

\* DecodeError::with_path (push_path).
with_path(err, scope) == [err EXCEPT !.item_path = Append(@, scope)]

\* DecodeError::kinded and DecodeError::pathed: map_err on what f returned.
kinded(kind, r) == IF r.ok THEN r ELSE [r EXCEPT !.err = with_kind(@, kind)]
pathed(scope, r) == IF r.ok THEN r ELSE [r EXCEPT !.err = with_path(@, scope)]

RECURSIVE Nested(_, _, _)
\* The wrappers ws, listed from the outermost to the innermost, around a leaf
\* that returns r: the i-th wrapper calls the rest as its closure f.
Nested(ws, i, r) ==
    IF i > Len(ws) THEN r
    ELSE IF ws[i].wrap = "kinded" THEN kinded(ws[i].kind, Nested(ws, i + 1, r))
    ELSE pathed(ws[i].scope, Nested(ws, i + 1, r))

RECURSIVE Display_path(_, _)
\* impl Display for DecodeError: the loop over item_path.iter().rev(), from
\* the i-th part of the reversed path on; what is written, piece by piece.
Display_path(parts, i) ==
    IF i > Len(parts) THEN <<>>
    ELSE (IF i > 1 THEN <<".">> ELSE <<>>)
         \o <<ItemPathPart_fmt(parts[Len(parts) + 1 - i])>>
         \o Display_path(parts, i + 1)

\* The grave accent that write_char('\x60') writes, by its code point.
Grave == "U+0060"

\* impl Display for DecodeError.
DecodeError_fmt(err) ==
    <<"error while reading ">>
    \o (IF err.item_kind # "" THEN <<err.item_kind, " at ">> ELSE <<>>)
    \o <<Grave>> \o Display_path(err.item_path, 1) \o <<Grave>>
    \o <<": ", err.message>>

\* The wrappers a decoder nests, and the results of the leaf.
Wrappers ==
    {[wrap |-> "kinded", kind |-> k, scope |-> Named("")] : k \in {"packet", "string"}}
    \cup {[wrap |-> "pathed", kind |-> "", scope |-> s] :
             s \in {Named("data"), Named("len"), Indexed(3)}}
MaxNesting == 4
Nestings == UNION {[1 .. n -> Wrappers] : n \in 0 .. MaxNesting}
Leaves ==
    {[ok |-> TRUE, err |-> DecodeError_new("")]}
    \cup {[ok |-> FALSE, err |-> DecodeError_new(m)] : m \in {"too long", "underflow"}}

ErrInit == OthersIdle /\ CallIdle

\* Run the nested wrappers around the leaf; an error that comes out is
\* displayed.
Propagate(ws, leaf) ==
    /\ call = NoCall
    /\ call' = [fn |-> "DecodeError::kinded", args |-> <<ws, leaf>>]
    /\ ret' = [r |-> Nested(ws, 1, leaf),
               shown |-> IF Nested(ws, 1, leaf).ok THEN <<>>
                         ELSE DecodeError_fmt(Nested(ws, 1, leaf).err)]
    /\ OthersUnchanged

ErrNext == \E ws \in Nestings, leaf \in Leaves : Propagate(ws, leaf)

ErrSpec == ErrInit /\ [][ErrNext]_vars

\* ---------------------------------------------------------------- Snip

\* BytesMut::clone: a new buffer that holds a copy of the bytes; copied counts
\* the bytes written into it.
BytesMut_clone(bytes) == [bytes |-> bytes, copied |-> Len(bytes)]

\* Bytes::slice of the frozen clone on the range detect_sub_slice found.
Bytes_slice(cloned, from, count) ==
    [body |-> SubSeq(cloned.bytes, from + 1, from + count), copied |-> cloned.copied]

\* impl Snip for BytesMut: freeze_range of the count bytes at offset from of
\* bytes: Bytes::new() for an empty subset, otherwise
\* self.clone().freeze().slice(..).
freeze_range(bytes, from, count) ==
    IF count = 0 THEN [body |-> <<>>, copied |-> 0]
    ELSE Bytes_slice(BytesMut_clone(bytes), from, count)

\* The receive buffers a body is cut from.
SnipBuffers == PrimBodies

SnipInit == OthersIdle /\ CallIdle

\* ByteMutReadSession::freeze_range on a subset of the session's buffer.
FreezeRange(bytes, from, count) ==
    /\ call = NoCall
    /\ call' = [fn |-> "freeze_range", args |-> <<bytes, from, count>>]
    /\ ret' = freeze_range(bytes, from, count)
    /\ OthersUnchanged

SnipNext ==
    \E bytes \in SnipBuffers : \E from \in 0 .. Len(bytes) :
        \E count \in 0 .. (Len(bytes) - from) : FreezeRange(bytes, from, count)

SnipSpec == SnipInit /\ [][SnipNext]_vars

\* ------------------------------------------- one ByteMutReadSession's life

\* The calls made on one session before it is dropped, at most.
MaxOps == 4

\* The buffers a session is opened on, and the counts it is called with.
SessBuffers == {<<1, 2, 3>>, <<7, 8, 9, 10>>}
ReserveCounts == {0, 1, 5}
ConsumeCounts == {0, 1, 2}

RECURSIVE SumOf(_)
SumOf(counts) == IF counts = <<>> THEN 0 ELSE Head(counts) + SumOf(Tail(counts))

RECURSIVE MaxOf(_)
MaxOf(counts) ==
    IF counts = <<>> THEN 0
    ELSE IF Head(counts) > MaxOf(Tail(counts)) THEN Head(counts)
    ELSE MaxOf(Tail(counts))

SessInit == OthersIdle /\ CallIdle

\* ByteMutReadSession::new on a buffer; ret keeps the session's post_op, the
\* counts it was called with so far, the order of the calls, and the buffer
\* once it is dropped.
SessOpen(bytes) ==
    /\ call = NoCall
    /\ call' = [fn |-> "ByteMutReadSession", args |-> <<bytes>>]
    /\ ret' = [post |-> SessionNew, reserves |-> <<>>, consumes |-> <<>>, log |-> <<>>,
               dropped |-> FALSE, out |-> [bytes |-> bytes, reserved |-> 0]]
    /\ OthersUnchanged

\* The session is open and may be called once more.
SessLive ==
    IF call.fn = "ByteMutReadSession"
    THEN ~ret.dropped /\ Len(ret.reserves) + Len(ret.consumes) < MaxOps
    ELSE FALSE

\* ByteMutReadSession::reserve(additional).
SessReserve(additional) ==
    /\ SessLive
    /\ ret' = [ret EXCEPT !.post = SessionReserve(@, additional),
                          !.reserves = Append(@, additional),
                          !.log = Append(@, "reserve")]
    /\ UNCHANGED call
    /\ OthersUnchanged

\* ByteMutReadSession::consume(count), of bytes the buffer holds.
SessConsume(count) ==
    /\ SessLive
    /\ SumOf(ret.consumes) + count <= Len(call.args[1])
    /\ ret' = [ret EXCEPT !.post = SessionConsume(@, count),
                          !.consumes = Append(@, count),
                          !.log = Append(@, "consume")]
    /\ UNCHANGED call
    /\ OthersUnchanged

\* Drop for ByteMutReadSession.
SessDrop ==
    /\ IF call.fn = "ByteMutReadSession" THEN ~ret.dropped ELSE FALSE
    /\ ret' = [ret EXCEPT !.dropped = TRUE, !.out = SessionDrop(call.args[1], ret.post)]
    /\ UNCHANGED call
    /\ OthersUnchanged

SessNext ==
    \/ \E bytes \in SessBuffers : SessOpen(bytes)
    \/ \E additional \in ReserveCounts : SessReserve(additional)
    \/ \E count \in ConsumeCounts : SessConsume(count)
    \/ SessDrop

SessSpec == SessInit /\ [][SessNext]_vars

\* ------------------------------------------------------- the framing codec

\* The length prefix of a buffer, as VarInt decoding reads it.
Prefix(bs) == DecodeVarInt(bs, 0)

\* The packet id that follows a decoded prefix.
IdOf(bs) == DecodeVarInt(bs, Prefix(bs).pos)

\* A decode call has just returned.
Returned == res.kind # "idle"

\* C1: a declared length above max_recv_len (itself at most 2^21) makes decode
\* return an error whatever else is buffered, and the receive buffer keeps all
\* its bytes; a declared length equal to max_recv_len is not rejected as too big.
C1_OversizeRejected ==
    /\ ~UGt(max_recv_len, 2 ^ 21)
    /\ (Returned /\ Prefix(prev).st = "ok") =>
          /\ UGt(Prefix(prev).val, max_recv_len) =>
                (res.kind = "err" /\ res.err = "too_big" /\ buf = prev)
          /\ Prefix(prev).val = max_recv_len =>
                ~(res.kind = "err" /\ res.err = "too_big")

\* C1's case: the hard maximum is the limit, the buffer holds a prefix declaring
\* more and nothing after it, and decode has failed.
C1_Witness ==
    /\ res.kind = "err" /\ res.err = "too_big"
    /\ max_recv_len = 2 ^ 21
    /\ Prefix(prev).pos = Len(prev)

\* The length prefix, the packet id, the declared bytes are not all buffered.
PrefixIncomplete(bs) == Prefix(bs).st = "none"
IdIncomplete(bs) == Prefix(bs).st = "ok" /\ IdOf(bs).st = "none"
BodyIncomplete(bs) ==
    /\ Prefix(bs).st = "ok"
    /\ UGt(Prefix(bs).val, Len(bs) - Prefix(bs).pos)

\* C2 as stated: whenever the prefix, the packet id or the declared bytes are
\* not fully buffered, decode returns Ok(None) and the buffer is unchanged.
C2_Original ==
    (Returned /\ (PrefixIncomplete(prev) \/ IdIncomplete(prev) \/ BodyIncomplete(prev)))
        => (res.kind = "none" /\ buf = prev)

\* C2 as amended: decode returns Ok(None) and leaves the buffer unchanged
\* whenever the prefix is not fully buffered, or the prefix declares a length
\* of at most max_recv_len and the packet id is not fully buffered, or both are
\* decoded and the declared bytes are not all buffered.
C2_NeedMoreInput ==
    (/\ Returned
     /\ \/ PrefixIncomplete(prev)
        \/ /\ Prefix(prev).st = "ok"
           /\ ~UGt(Prefix(prev).val, max_recv_len)
           /\ \/ IdIncomplete(prev)
              \/ IdOf(prev).st = "ok" /\ BodyIncomplete(prev))
        => (res.kind = "none" /\ buf = prev)

\* C2's case: the prefix and the packet id are buffered, a body byte is not,
\* and decode has asked for more input.
C2_Witness ==
    /\ res.kind = "none"
    /\ Prefix(prev).st = "ok" /\ IdOf(prev).st = "ok"
    /\ BodyIncomplete(prev)
    /\ buf = prev

\* C3: a returned packet's id bytes and body are the declared_length bytes after
\* the prefix, the buffer has advanced by the prefix and the declared length, and
\* what followed the frame is what the buffer now holds.
C3_FrameExact ==
    res.kind = "packet" =>
        LET length == Prefix(prev)
            id == IdOf(prev)
        IN  /\ length.st = "ok" /\ id.st = "ok"
            /\ res.id = id.val
            /\ SubSeq(prev, length.pos + 1, length.pos + length.val)
                  = SubSeq(prev, length.pos + 1, id.pos) \o res.body
            /\ Len(prev) - Len(buf) = length.pos + length.val
            /\ buf = SubSeq(prev, length.pos + length.val + 1, Len(prev))

\* C3's case: a packet with a two-byte id and a body was returned and bytes
\* that followed the frame remain.
C3_Witness ==
    /\ res.kind = "packet"
    /\ IdOf(prev).pos - Prefix(prev).pos = 2
    /\ Len(res.body) > 0
    /\ Len(buf) > 0

\* C10: when the buffer held exactly what encode wrote for a packet whose
\* id_len + body.len() is at most max_recv_len, decode returned that id and
\* that body and consumed every byte.
C10_RoundTrip ==
    \A id \in RawIds, body \in RawBodies :
        LET e == Encode(id, body, <<>>)
        IN  (/\ Returned
             /\ e.ok
             /\ prev = e.dst
             /\ VarIntLength(id) + Len(body) <= max_recv_len)
                => /\ res.kind = "packet"
                   /\ res.id = id
                   /\ res.body = body
                   /\ buf = <<>>

\* C10's case: a packet with a five-byte id and a body went through encode and
\* decode.
C10_Witness ==
    /\ res.kind = "packet"
    /\ res.id = U32_MAX
    /\ Len(res.body) = 3
    /\ prev = Encode(res.id, res.body, <<>>).dst

\* ------------------------------------------------ frames in receipt order

RECURSIVE StreamOf(_)
\* The bytes of a sequence of frames, one after the other.
StreamOf(frames) ==
    IF frames = <<>> THEN <<>> ELSE Head(frames).bytes \o StreamOf(Tail(frames))

\* In this step decode returned a frame to the loop of run_peer_listener.
FrameReturned == res'.kind = "packet" /\ Len(buf') < Len(buf)

\* C4: whatever the chunks the bytes arrive in, a frame decode returns is the
\* oldest frame sent and not yet returned, with its id and body, and all its
\* bytes were buffered; the frames not yet returned are, byte for byte, what
\* the buffer and the socket still hold; and while the oldest such frame is a
\* valid one, decode neither fails nor, once the frame is wholly buffered,
\* answers Ok(None).
C4_FramesInOrder ==
    [][/\ FrameReturned =>
            /\ pending # <<>>
            /\ res'.id = Head(pending).id
            /\ res'.body = Head(pending).body
            /\ SubSeq(buf, 1, Len(Head(pending).bytes)) = Head(pending).bytes
            /\ pending' = Tail(pending)
       /\ StreamOf(pending') = buf' \o wire'
       /\ (pending' # <<>> /\ Head(pending').framed) =>
            /\ res'.kind # "err"
            /\ res'.kind = "none" => Len(buf') < Len(Head(pending').bytes)]_vars

\* C4's case: of three frames sent, one behind a two-byte prefix was returned
\* while bytes of the next frame were buffered and others not yet received.
C4_Witness ==
    /\ nsent = 3
    /\ res.kind = "packet"
    /\ Prefix(prev).pos = 2
    /\ buf # <<>>
    /\ wire # <<>>
    /\ Len(pending) = 1

\* ------------------------------------------------------ the connection driver

\* In this step the loop of run_peer_listener decoded a packet from a frame.
PacketDecoded == FrameReturned /\ last'.ok

\* C5: a connection starts in Handshake; a Handshake packet decoded there
\* moves it to Status when next_state is 1, to Login when it is 2, and
\* otherwise makes run_peer_listener return an error with the state still
\* Handshake.
C5_HandshakeTarget ==
    /\ state = "Handshake"
    /\ [][(state = "Handshake" /\ PacketDecoded) =>
            /\ last'.shape = "Handshake"
            /\ last'.fields[4][1] = 1 => (state' = "Status" /\ pc' = "running")
            /\ last'.fields[4][1] = 2 => (state' = "Login" /\ pc' = "running")
            /\ last'.fields[4][1] \notin {1, 2} =>
                 (state' = "Handshake" /\ pc' = "failed")]_vars

\* C5's case: a handshake asked for state 3 and the function has failed.
C5_Witness ==
    /\ pc = "failed"
    /\ state = "Handshake"
    /\ last.ok /\ last.shape = "Handshake" /\ last.fields[4][1] = 3

\* In this step a received frame failed to decode: the codec returned a
\* framing error, Packet::decode returned an error, or the handshake named an
\* invalid next state.
DecodeFailed ==
    \/ res'.kind = "err" /\ res.kind # "err"
    \/ FrameReturned /\ ~last'.ok
    \/ state = "Handshake" /\ PacketDecoded /\ last'.fields[4][1] \notin {1, 2}

\* C6: the step in which a frame fails to decode makes run_peer_listener return
\* Err, with the connection state as it was and nothing written; and once it
\* has returned Err no frame is read or processed, the state does not change
\* and nothing is written.
C6_FailStops ==
    [][/\ DecodeFailed => (pc' = "failed" /\ state' = state /\ written' = written)
       /\ pc = "failed" =>
            /\ pc' = "failed"
            /\ UNCHANGED <<buf, res, state, written, last>>
            /\ Len(pending') >= Len(pending)]_vars

\* C6's case: in Status a frame with an undeclared packet id failed the
\* function while a later frame was still on the wire.
C6_Witness ==
    /\ pc = "failed"
    /\ state = "Status"
    /\ ~last.ok /\ last.err = "unknown_packet"
    /\ wire # <<>>

\* C7: in Status a StatusRequest frame makes the driver append exactly one
\* StatusResponse with the configured JSON string to what it has written, a
\* PingRequest frame exactly one PingResponse with the request's payload, and
\* the state stays Status.
C7_StatusReplies ==
    [][(state = "Status" /\ FrameReturned /\ pending # <<>>) =>
            /\ Head(pending).shape = "StatusRequest" =>
                 /\ written' = Append(written,
                                      Written("cb_status", "StatusResponse", <<STATUS_JSON>>))
                 /\ state' = "Status" /\ pc' = "running"
            /\ Head(pending).shape = "PingRequest" =>
                 /\ written' = Append(written,
                                      Written("cb_status", "PingResponse",
                                              <<Head(pending).fields[1]>>))
                 /\ state' = "Status" /\ pc' = "running"]_vars

\* C7's case: a PingRequest and then a StatusRequest were received in Status
\* and answered in that order.
C7_Witness ==
    /\ state = "Status"
    /\ Len(written) = 2
    /\ written[1] = Written("cb_status", "PingResponse", <<Ping1>>)
    /\ written[2] = Written("cb_status", "StatusResponse", <<STATUS_JSON>>)
    /\ pending = <<>>

\* ----------------------------------------------------- the packet registries

\* The ids and shapes the server-bound registries are documented to declare.
DeclaredIds(module) ==
    CASE module = "sb_handshake" -> {0}
      [] module = "sb_status" -> {0, 1}
      [] module = "sb_login" -> {0, 1, 2}

DeclaredShape(module, id) ==
    CASE module = "sb_handshake" -> "Handshake"
      [] module = "sb_status" -> IF id = 0 THEN "StatusRequest" ELSE "PingRequest"
      [] module = "sb_login" ->
           IF id = 0 THEN "LoginStart"
           ELSE IF id = 1 THEN "EncryptionResponse"
           ELSE "LoginPluginResponse"

\* Packet::decode was called on a packet encoded for another state.
WrongState == dec_in.of \in States /\ dec_in.state # dec_in.of

UnknownPacket == ~dec_out.ok /\ dec_out.err = "unknown_packet"

\* C8 as stated: decoding a packet with the Packet::decode of another state
\* yields the unknown-packet-id error, whether or not that state's registry
\* declares the packet's id.
C8_Original == WrongState => UnknownPacket

\* C8 as amended: decoding a packet with the Packet::decode of another state
\* yields the unknown-packet-id error exactly when that state's registry does
\* not declare the packet's id; when it does, the bytes are decoded as the
\* shape that registry declares for the id.
C8_WrongState ==
    WrongState =>
        /\ UnknownPacket <=> dec_in.id \notin DeclaredIds(dec_in.state)
        /\ dec_in.id \in DeclaredIds(dec_in.state) =>
              dec_out.shape = DeclaredShape(dec_in.state, dec_in.id)

\* C8's case: a PingRequest decoded with sb_login's Packet::decode came out as
\* an EncryptionResponse.
C8_Witness ==
    /\ dec_in.of = "sb_status" /\ dec_in.shape = "PingRequest"
    /\ dec_in.state = "sb_login"
    /\ dec_out.ok /\ dec_out.shape = "EncryptionResponse"

\* C9: each server-bound registry declares exactly its documented ids, each
\* once; Packet::decode takes the arm of the declared shape for a declared id,
\* and for any other id, negative ones included, returns the unknown-packet
\* error naming that id and the state.
C9_Dispatch ==
    /\ \A m \in States :
          /\ {Registry(m)[i].id : i \in 1 .. Len(Registry(m))} = DeclaredIds(m)
          /\ \A i, j \in 1 .. Len(Registry(m)) :
                Registry(m)[i].id = Registry(m)[j].id => i = j
    /\ dec_in.state \in States =>
          IF dec_in.id \in DeclaredIds(dec_in.state)
          THEN /\ ~UnknownPacket
               /\ dec_out.shape = DeclaredShape(dec_in.state, dec_in.id)
          ELSE /\ UnknownPacket
               /\ dec_out.id = dec_in.id
               /\ dec_out.state = dec_in.state

\* C9's case: a negative id was decoded with sb_login's Packet::decode, which
\* named it in the unknown-packet error.
C9_Witness ==
    /\ dec_in.state = "sb_login"
    /\ dec_in.id < 0
    /\ UnknownPacket /\ dec_out.id = dec_in.id

\* --------------------------------------------------------- Encoder::encode

\* An encode call has returned: its packet id, body and destination buffer.
Encoded == call.fn = "encode"
EncId == call.args[1]
EncBody == EncBodies(call.args[2])
EncDst == call.args[3]

EncLen == EncBodySizes[call.args[2]]

\* C11: encode fails exactly when id_len + body.len() is above 2^21 and then
\* leaves the destination buffer as it was; otherwise the buffer is what it
\* was, then VarInt(id_len + body.len()), then VarInt(id), then the body.
C11_EncodeLimit ==
    Encoded =>
        IF Len(EncodeVarInt(EncId)) + EncLen > 2 ^ 21
        THEN ~ret.ok /\ ret.dst = EncDst
        ELSE /\ ret.ok
             /\ ret.dst = EncDst \o EncodeVarInt(Len(EncodeVarInt(EncId)) + EncLen)
                                 \o EncodeVarInt(EncId) \o EncBody

\* C11's case: a two-byte id and a body of 2^21 - 1 bytes, one byte too many,
\* were refused with bytes already in the destination buffer.
C11_Witness ==
    /\ Encoded
    /\ ~ret.ok
    /\ Len(EncodeVarInt(EncId)) = 2
    /\ EncLen = 2 ^ 21 - 1
    /\ EncDst # <<>>

\* ------------------------------------------------ Packet::encode and decode

\* Packet::decode was called with the module a packet was encoded for.
OwnState == dec_in.of \in States /\ dec_in.state = dec_in.of

\* C12: Packet::decode of the bytes Packet::encode wrote for a packet of the
\* same server-bound module returns the packet's shape with each field as it
\* was encoded, the cursor at the end of those bytes.
C12_PacketRoundTrip ==
    \A p \in SbPackets :
        (/\ OwnState
         /\ dec_in.state = p.state
         /\ dec_in.bytes = Packet_encode(p.state, p.shape, p.fields))
            => /\ dec_out.ok
               /\ dec_out.shape = p.shape
               /\ dec_out.fields = p.fields
               /\ dec_out.pos = Len(dec_in.bytes)

\* C12's case: Handshake{760, "localhost", 25565, 1} went through encode and
\* sb_handshake's decode.
C12_Witness ==
    /\ OwnState
    /\ dec_out.ok
    /\ dec_out.shape = "Handshake"
    /\ dec_out.fields = <<<<760>>, <<108, 111, 99, 97, 108, 104, 111, 115, 116>>,
                          <<25565>>, <<1>>>>
    /\ dec_out.pos = Len(dec_in.bytes)

\* ------------------------------------------------------ VarInt and VarLong

\* C13: decoding what VarInt encoding wrote for an i32, whatever follows it in
\* the buffer, returns that i32 and leaves the cursor right after the encoded
\* bytes.
C13_VarIntRoundTrip ==
    call.fn \in {"VarInt", "var_i32"} =>
        /\ ret.dec.st = "ok"
        /\ ret.dec.val = call.args[1]
        /\ ret.dec.pos = Len(ret.bytes)

\* C13's case: i32::MIN was encoded in five bytes and decoded back with other
\* bytes behind it.
C13_Witness ==
    /\ call.fn = "var_i32"
    /\ call.args[1] = Bit31
    /\ call.args[2] # <<>>
    /\ Len(ret.bytes) = 5
    /\ ret.dec.val = Bit31

\* The most bytes a decoder reads: 5 for a VarInt, 10 for a VarLong.
MaxVarBytes == IF call.fn = "VarLong::decode_cx" THEN 10 ELSE 5

VarDecoded ==
    call.fn \in {"decode_var_i32_streaming", "VarInt::decode_cx", "VarLong::decode_cx"}

\* The bytes of bs up to the first one with its continuation bit clear, Len(bs)
\* + 1 when there is none.
FirstClear(bs) ==
    IF \A i \in 1 .. Len(bs) : bs[i] >= 128 THEN Len(bs) + 1
    ELSE CHOOSE n \in 1 .. Len(bs) : bs[n] < 128 /\ \A i \in 1 .. (n - 1) : bs[i] >= 128

\* C14: a decoder that has read five bytes (VarLong: ten) all with the
\* continuation bit set fails there, the cursor right after them, whether or
\* not more bytes follow; an encoding of at most five (ten) bytes whose last
\* byte has the bit clear is accepted, the cursor right after it.
C14_TooLong ==
    VarDecoded =>
        /\ FirstClear(call.args[1]) > MaxVarBytes /\ Len(call.args[1]) >= MaxVarBytes =>
              ret.st = "err" /\ ret.pos = MaxVarBytes
        /\ FirstClear(call.args[1]) <= MaxVarBytes /\ FirstClear(call.args[1]) <= Len(call.args[1]) =>
              ret.st = "ok" /\ ret.pos = FirstClear(call.args[1])

\* C14's case: VarLong::decode_cx failed on exactly ten bytes with the
\* continuation bit set.
C14_Witness ==
    /\ call.fn = "VarLong::decode_cx"
    /\ call.args[1] = Run(10, 255)
    /\ ret.st = "err" /\ ret.err = "too_big"

\* The bytes of bs from offset from on are at least one and fewer than five,
\* each with its continuation bit set: a VarInt the input ends in.
CutShort(bs, from) ==
    /\ from < Len(bs)
    /\ Len(bs) - from < 5
    /\ \A i \in (from + 1) .. Len(bs) : bs[i] >= 128

\* C15: on a VarInt the input ends in, the streaming decoder returns Ok(None);
\* when that VarInt is the length prefix, or the packet id behind a prefix
\* within max_recv_len, the framing decoder returns Ok(None) too.
C15_Incomplete ==
    Returned =>
        /\ CutShort(prev, 0) =>
              (Prefix(prev).st = "none" /\ res.kind = "none")
        /\ (/\ Prefix(prev).st = "ok"
            /\ ~UGt(Prefix(prev).val, max_recv_len)
            /\ CutShort(prev, Prefix(prev).pos)) =>
              (IdOf(prev).st = "none" /\ res.kind = "none")

\* C15's case: behind a one-byte prefix the buffer ended in four bytes of a
\* packet id, all with the continuation bit set, and decode asked for more.
C15_Witness ==
    /\ res.kind = "none"
    /\ Prefix(prev).st = "ok" /\ Prefix(prev).pos = 1
    /\ Len(prev) = 5
    /\ CutShort(prev, 1)

\* C16 as stated: VarInt::encode_cx writes at most 5 bytes and
\* VarLong::encode_cx at most 10, no byte but the last written one having the
\* continuation bit clear.
C16_EncodeCxStops ==
    call.fn \in {"VarInt::encode_cx", "VarLong::encode_cx"} =>
        /\ Len(ret.out) <= (IF call.fn = "VarInt::encode_cx" THEN 5 ELSE 10)
        /\ \A i \in 1 .. (Len(ret.out) - 1) : ret.out[i] >= 128

\* ------------------------------------------------- composite record Views

\* The offset at which the i-th field of the record of a View::field call
\* starts: the record start, then the encoded fields before it.
FieldStart ==
    Len(call.args[3])
        + Len(Builder_serialize(SubSeq(call.args[1], 1, call.args[5] - 1), call.args[2], 1))

\* C17: the View accessor of each field of a record (A, B, C) builds the
\* field's view from the offset at which the field starts (the record start
\* for the first field, otherwise the end of the preceding field), so it
\* returns the value that was encoded for its own field.
C17_FieldViews ==
    call.fn = "View::field" =>
        /\ ret.sum.ok
        /\ ret.at = FieldStart
        /\ ret.view.ok
        /\ ret.view.val = <<call.args[2][call.args[5]]>>

\* ---------------------------------------------------------------- strings

\* A string decoder was called: its maximum, the byte length declared in front
\* of the payload, and the payload that followed.
StrCalled == call.fn \in {"NetString::decode", "String::summarize", "BufString::decode_cx"}
StrMax == call.args[1]
StrSize == call.args[2]
StrPayload == call.args[3]

\* The declared byte length exceeds 4 * StrMax.
OverFourfold == StrSize >= 1 /\ StrMax <= (StrSize - 1) \div 4

\* The call returned the error of the byte-length check.
ByteLengthError ==
    IF call.fn = "BufString::decode_cx"
    THEN ret.st = "err" /\ ret.err = "utf8_length_beyond_limit"
    ELSE ~ret.ok /\ ret.err = "string_bytes_too_long"

\* C18: decoding a string with a maximum of M codepoints returns an error
\* whenever the declared byte length exceeds 4 * M, with the cursor just after
\* the length prefix: the payload is not read, and need not be there.
C18_ByteLimit ==
    (StrCalled /\ OverFourfold) =>
        /\ ByteLengthError
        /\ ret.pos = Len(EncodeVarInt(StrSize))

\* String::summarize refused a length of more than 4 * 3 bytes whose payload
\* is not all there, with the cursor after the one-byte length.
C18_Witness ==
    /\ call.fn = "String::summarize"
    /\ OverFourfold
    /\ StrMax = 3
    /\ Len(StrPayload) < StrSize
    /\ ByteLengthError
    /\ ret.pos = 1

\* C19: String::summarize of the MineCodec returns an error for every payload
\* that is not well-formed UTF-8, so String::view never builds a str from such
\* bytes.
C19_ViewIsUtf8 ==
    (call.fn = "String::summarize" /\ ret.ok) => Utf8Count(ret.val, 1) >= 0

\* The UTF-16 code units of a well-formed UTF-8 text: one for each codepoint,
\* and one more for each four-byte sequence.
RECURSIVE Utf16Units(_, _)
Utf16Units(text, i) ==
    IF i > Len(text) THEN 0
    ELSE (IF Utf8Width(text[i]) = 4 THEN 2 ELSE 1) + Utf16Units(text, i + Utf8Width(text[i]))

\* C20: BufString::decode_cx with maximum max_len returns an error for every
\* valid UTF-8 payload of more than max_len UTF-16 code units, also when its
\* byte length passes the early check.
C20_Utf16Limit ==
    (/\ call.fn = "BufString::decode_cx"
     /\ StrSize = Len(StrPayload)
     /\ Utf8Count(StrPayload, 1) >= 0
     /\ Utf16Units(StrPayload, 1) > StrMax) => ret.st = "err"

\* C21: every valid UTF-8 string of at most M codepoints, multi-byte ones of
\* more than M bytes included, is serialized with bound M, and summarize then
\* view on the written bytes return exactly the original bytes.
C21_StringRoundTrip ==
    (call.fn = "String::serialize" /\ Utf8Count(call.args[2], 1) <= call.args[1]) =>
        /\ ret.ser.ok
        /\ ret.sum.ok
        /\ ret.view = call.args[2]

\* ---------------------------------------------------------------- Interner

\* C24: after any sequence of intern / intern_iter calls, decode(h) returns,
\* without panicking, exactly the string that was interned to obtain h, for
\* every handle h returned so far, and find_intern(s) returns that handle for
\* every string s interned so far.
C24_InternerFaithful ==
    \A i \in 1 .. Len(interned) :
        /\ Interner_decode(interner, interned[i][2]) = [st |-> "ok", text |-> interned[i][1]]
        /\ Interner_find_intern(interner, interned[i][1]) = [st |-> "some", id |-> interned[i][2]]

\* ------------------------------------------------------------ JSON schemas

\* The schema and the pairs of the document of a validate_deep or reify call.
SchemaOf == call.args[1]
PairsOf == call.args[2]

\* The value a document gives a field: that of the pair with its name, if any
\* (the documents here name no key twice).
Present(name) == \E i \in 1 .. Len(PairsOf) : PairsOf[i][1] = name
ValueOf(name) == PairsOf[CHOOSE i \in 1 .. Len(PairsOf) : PairsOf[i][1] = name][2]
NoKeyTwice == \A i, j \in 1 .. Len(PairsOf) : PairsOf[i][1] = PairsOf[j][1] => i = j

\* A field the document leaves out or sets to null.
Absent(name) == ~Present(name) \/ ValueOf(name).kind = "Null"

\* The field has the kind the schema declares, or is optional and absent.
FieldFits(f) ==
    IF IsOption(f.ty) /\ Absent(f.name) THEN TRUE
    ELSE Present(f.name) /\ ValueOf(f.name).kind = KindOf(f.ty)

\* What the field reifies to.
FieldValue(f) ==
    IF IsOption(f.ty) /\ Absent(f.name) THEN [none |-> TRUE, v |-> <<>>]
    ELSE [none |-> FALSE, v |-> ValueOf(f.name).v]

\* C22: for a JSON object whose present fields have the kinds the schema
\* declares, parsing, view_object on the root and validate_deep succeed and
\* reify yields the record with each present field's value and None for each
\* absent optional field.
C22_Reifies ==
    (/\ call.fn \in {"validate_deep", "reify"}
     /\ NoKeyTwice
     /\ \A i \in 1 .. Len(SchemaOf.fields) : FieldFits(SchemaOf.fields[i])) =>
        /\ ret.st = "ok"
        /\ call.fn = "reify" =>
              ret.val = [i \in 1 .. Len(SchemaOf.fields) |-> FieldValue(SchemaOf.fields[i])]

\* The first field, in declaration order, that the document does not fit.
FirstMisfit ==
    SchemaOf.fields[CHOOSE i \in 1 .. Len(SchemaOf.fields) :
        /\ ~FieldFits(SchemaOf.fields[i])
        /\ \A j \in 1 .. (i - 1) : FieldFits(SchemaOf.fields[j])]

\* C23: validate_deep returns an error whose context names the failing field
\* and its struct when a required field is absent or a present field has
\* another JSON kind than the declared one; it never returns Ok then.
C23_Rejects ==
    (/\ call.fn = "validate_deep"
     /\ NoKeyTwice
     /\ \E i \in 1 .. Len(SchemaOf.fields) : ~FieldFits(SchemaOf.fields[i])) =>
        /\ ret.st = "err"
        /\ ret.field = FirstMisfit.name
        /\ ret.of = SchemaOf.name

\* ------------------------------------------------------- the receive limit

\* C25: HARD_MAX_PACKET_LEN_INCL, written 2 << 21 - 1, is 2^21 = 2097152: it
\* is the limit in force whenever the largest u32 was asked for.
C25_HardMax ==
    max_recv_len = CapRecvLen(U32_MAX) => max_recv_len = 2097152

\* A packet was decoded under the hard maximum.
C25_Witness ==
    max_recv_len = HARD_MAX_PACKET_LEN_INCL /\ res.kind = "packet"

\* C28: after any sequence of new and set_max_recv_len the codec's
\* max_recv_len is at most 2^21, and what a decode call asks to reserve is at
\* most max_recv_len.
C28_ReservationCapped ==
    /\ ~UGt(max_recv_len, 2097152)
    /\ ~UGt(res.reserved, max_recv_len)

\* A decode call reserved room for a frame under a lowered limit.
C28_Witness ==
    max_recv_len = 3 /\ res.reserved = 2

\* ------------------------------------------------------ the VarInt length

\* The number of significant bits of the u32 word v.
BitsUsed(v) ==
    IF v < 0 THEN 32
    ELSE IF \E b \in 0 .. 30 : v < 2 ^ b
    THEN CHOOSE b \in 0 .. 30 : v < 2 ^ b /\ \A c \in 0 .. (b - 1) : v >= 2 ^ c
    ELSE 31

\* C26: for every i32 v, VarInt encoding writes max(1, ceil(b / 7)) bytes, b
\* the number of significant bits of v as a u32: 1 byte for 0, 5 bytes for
\* every negative v.
C26_EncodedLength ==
    call.fn \in {"VarInt", "var_i32"} =>
        /\ Len(ret.bytes) = (IF call.args[1] = 0 THEN 1 ELSE (BitsUsed(call.args[1]) + 6) \div 7)
        /\ call.args[1] < 0 => Len(ret.bytes) = 5
        /\ VarIntLength(call.args[1]) = Len(ret.bytes)

\* A negative value and a two-byte value were encoded.
C26_Witness ==
    /\ call.fn = "VarInt"
    /\ call.args[1] \in {-129, 16383}
    /\ Len(ret.bytes) \in {2, 5}

\* ------------------------------------------------------------ write_u128

\* C27: write_u128(v) on an empty CtfeFormatter of sufficient capacity makes
\* finish return the decimal representation of v without leading zeros, "0"
\* for 0: the text of v.to_string().
C27_Decimal ==
    (call.fn = "write_u128" /\ Len(call.args[2].text) <= call.args[1]) =>
        /\ ret.st # "panic"
        /\ ret.st = "ok" => finish(ret.f) = call.args[2].text

\* write_u128 returned from writing u128::MAX or 0.
C27_Witness ==
    /\ call.fn = "write_u128"
    /\ call.args[1] = 48
    /\ ret.st = "ok"
    /\ \/ Len(finish(ret.f)) = 39
       \/ finish(ret.f) = <<48>>

\* ------------------------------------------------------------- Vec<T>

\* The bytes of the frame that follow the count of a decoded Vec.
VecRemaining ==
    Len(call.args[2]) - VarUint_decode(call.args[2], 0).pos

\* C29: decoding a length-prefixed Vec<T> never reserves capacity for more
\* elements than the remaining bytes of the frame could contain (no more
\* than one element per byte).
C29_VecCapacity ==
    call.fn = "Vec::decode" => ret.capacity <= VecRemaining

\* ------------------------------------------------------------ the PeerState

\* C30: in every run of run_peer_listener the Play state is never reached, and
\* the only state changes are Handshake to Status and Handshake to Login: once
\* in Status or Login the state never changes again.
C30_NoPlay ==
    /\ state # "Play"
    /\ [][/\ state' # "Play"
          /\ state' # state => (state = "Handshake" /\ state' \in {"Status", "Login"})
          /\ state \in {"Status", "Login"} => state' = state]_vars

\* In Login a LoginStart was answered and the state is still Login.
C30_Witness ==
    /\ state = "Login"
    /\ last.ok /\ last.shape = "LoginStart"
    /\ written # <<>>

\* ------------------------------------------- primitives in a framed body

\* The bytes a fixed-size primitive takes.
PrimSize(ty) ==
    CASE ty = "u16" -> 2 [] ty = "i64" -> 8 [] OTHER -> 1

\* The primitive runs past the end of the body: a fixed-size one has fewer
\* bytes than its size, a VarInt ends on a byte with the continuation bit
\* before its fifth byte.
RunsPast(ty, bs) ==
    IF ty = "VarInt"
    THEN Len(bs) < 5 /\ \A i \in 1 .. Len(bs) : bs[i] >= MSB
    ELSE Len(bs) < PrimSize(ty)

\* C31: inside a framed body a primitive that runs past the end of the body
\* is a decode error of Codec::decode and decode_simple, never a value and
\* never a request for more input, and the cursor is not past the body.
C31_HardError ==
    (call.fn \in {"Codec::decode", "decode_simple"} /\ RunsPast(call.args[1], call.args[2])) =>
        /\ ~ret.ok
        /\ ret.err = (IF call.fn = "Codec::decode" THEN "incomplete"
                      ELSE IF call.args[1] = "VarInt" THEN "unterminated"
                      ELSE "end_of_stream")
        /\ ret.pos <= Len(call.args[2])

\* A VarInt of two continuation bytes was decoded by Codec::decode.
C31_Witness ==
    /\ call.fn = "Codec::decode"
    /\ call.args = <<"VarInt", <<128, 255>>>>
    /\ ~ret.ok

\* ----------------------------------------------------------- Json<T> views

\* C32: if Json<T>::summarize succeeds, building the validated view from the
\* summary and reifying it neither fails nor panics: validate_deep returning
\* Ok implies reify returns Ok on the same view.
C32_ValidatedReifies ==
    (call.fn = "Json::summarize" /\ ret.summary.st = "ok") => ret.reified.st = "ok"

\* An array of two booleans at the root was summarized and reified.
C32_Witness ==
    /\ call.fn = "Json::summarize"
    /\ ret.summary.st = "ok"
    /\ call.args[3].kind = "Array"
    /\ ret.reified.val = <<1, 0>>

\* ------------------------------------------------- skip after summarize

\* A record was summarized and then skipped from its start.
Skipped == call.fn = "skip" /\ ret.sum.ok

\* C33: for every input on which summarize succeeds, skip with the resulting
\* summary on a cursor at the value's start, with a skip_to_start that does
\* nothing, leaves the cursor where summarize left it.
C33_SkipEndsWhereSummarizeDid ==
    Skipped => (ret.skip.st = "ok" /\ ret.skip.pos = ret.sum.pos)

\* C39: the debug assertion at the start of String::skip holds on every call
\* made while skipping or accessing the fields of a record, whatever the
\* position of the string field and whatever the record's start offset.
C39_AssertionHolds ==
    (call.fn \in {"skip", "View::field"} /\ ret.sum.ok /\ call.args[4]) =>
        ret.skip.st # "debug_assert"

\* ------------------------------------------------- nested decode errors

\* The wrappers that were nested, outermost first, and the leaf's result.
WrappersOf == call.args[1]
LeafOf == call.args[2]

\* The kind of the outermost kinded wrapper, "" when there is none.
OutermostKind ==
    IF \E i \in 1 .. Len(WrappersOf) : WrappersOf[i].wrap = "kinded"
    THEN WrappersOf[CHOOSE i \in 1 .. Len(WrappersOf) :
                        /\ WrappersOf[i].wrap = "kinded"
                        /\ \A j \in 1 .. (i - 1) : WrappersOf[j].wrap # "kinded"].kind
    ELSE ""

RECURSIVE Dotted(_, _, _)
\* The scopes of the pathed wrappers from the i-th wrapper on, outermost
\* first, separated by dots.
Dotted(ws, i, first) ==
    IF i > Len(ws) THEN <<>>
    ELSE IF ws[i].wrap # "pathed" THEN Dotted(ws, i + 1, first)
    ELSE (IF first THEN <<>> ELSE <<".">>)
         \o <<IF ws[i].scope.tag = "Named" THEN ws[i].scope.name
              ELSE IF ws[i].scope.index = 3 THEN "3" ELSE "?">>
         \o Dotted(ws, i + 1, FALSE)

\* C34: an error that propagates outward through nested kinded and pathed
\* wrappers has the kind of the outermost kinded wrapper, displays the pathed
\* scopes from the outermost to the innermost separated by dots, and keeps the
\* message created at the failing leaf.
C34_NestedError ==
    (call.fn = "DecodeError::kinded" /\ ~LeafOf.ok) =>
        /\ ~ret.r.ok
        /\ ret.r.err.item_kind = OutermostKind
        /\ ret.r.err.message = LeafOf.err.message
        /\ ret.shown =
               <<"error while reading ">>
               \o (IF OutermostKind # "" THEN <<OutermostKind, " at ">> ELSE <<>>)
               \o <<Grave>> \o Dotted(WrappersOf, 1, TRUE) \o <<Grave>>
               \o <<": ", LeafOf.err.message>>

\* An underflow inside pathed(3) inside kinded("string") inside pathed("data")
\* inside kinded("packet") came out as data.3 of a packet.
C34_Witness ==
    /\ call.fn = "DecodeError::kinded"
    /\ Len(WrappersOf) = 4
    /\ WrappersOf[3].kind = "string"
    /\ ret.shown = <<"error while reading ", "packet", " at ", Grave, "data", ".", "3", Grave,
                     ": ", "underflow">>

\* ------------------------------------------------ one packet fills a frame

\* C35: registry decoding of a frame body succeeds only when the declared
\* fields consume the whole body; a body with bytes left over after the last
\* declared field is rejected.
C35_WholeBody ==
    (dec_in.state # "" /\ dec_out.ok) => dec_out.pos = Len(dec_in.bytes)

\* ------------------------------------------- the packet id inside the frame

\* The bytes the packet id of the decoded buffer occupies.
IdLen == IdOf(prev).pos - Prefix(prev).pos

\* The prefix and the packet id were buffered and the length was accepted, but
\* the id takes more bytes than the frame declares.
IdOverrunsFrame ==
    /\ Prefix(prev).st = "ok"
    /\ ~UGt(Prefix(prev).val, max_recv_len)
    /\ IdOf(prev).st = "ok"
    /\ Prefix(prev).val < IdLen

\* C36: decode never returns a packet whose id VarInt occupies more bytes than
\* the declared frame length, a declared length of 0 included: once the id is
\* buffered it fails with the negative-body-size error, and a returned id and
\* body together are exactly the declared bytes.
C36_IdWithinFrame ==
    /\ (Returned /\ IdOverrunsFrame) => (res.kind = "err" /\ res.err = "negative_body")
    /\ res.kind = "packet" =>
           /\ IdLen <= Prefix(prev).val
           /\ IdLen + Len(res.body) = Prefix(prev).val

\* A frame that declares no bytes at all, followed by a one-byte id, was
\* refused.
C36_Witness ==
    /\ Returned
    /\ IdOverrunsFrame
    /\ Prefix(prev).val = 0
    /\ res.err = "negative_body"

\* ------------------------------------------------------- the frame's body

\* C37: the frame body the framing decoder returns is a view into the receive
\* buffer: producing it with freeze_range copies none of the buffered bytes.
C37_ZeroCopy == call.fn = "freeze_range" => ret.copied = 0

\* ------------------------------------------------- what a session applies

\* A session was dropped after some calls of reserve and consume.
SessDropped == IF call.fn = "ByteMutReadSession" THEN ret.dropped ELSE FALSE

\* C38: when a session is dropped, one operation is applied to the buffer: if
\* consume was called at least once, the buffer is advanced by the sum of all
\* consume counts and every reserve request, made before or after, is
\* discarded; otherwise the buffer reserves the maximum of all reserve
\* requests, 0 if there were none.
C38_OneOperation ==
    SessDropped =>
        IF ret.consumes # <<>>
        THEN /\ ret.out.bytes = SubSeq(call.args[1], SumOf(ret.consumes) + 1,
                                       Len(call.args[1]))
             /\ ret.out.reserved = 0
        ELSE /\ ret.out.bytes = call.args[1]
             /\ ret.out.reserved = MaxOf(ret.reserves)

\* reserve(5), consume(1), reserve(1), consume(2), then the drop: three bytes
\* were taken off the buffer and nothing was reserved.
C38_Witness ==
    /\ SessDropped
    /\ ret.log = <<"reserve", "consume", "reserve", "consume">>
    /\ ret.reserves = <<5, 1>>
    /\ ret.consumes = <<1, 2>>
    /\ ret.post = [op |-> "Consume", n |-> 3]
    /\ ret.out.reserved = 0

====
